---- MODULE Spec2Model ----
(***************************************************************************)
(* RNN-Transducer loss engine (torchaudio/csrc/rnnt).                      *)
(*                                                                         *)
(* Two parts of the engine are modelled:                                   *)
(*   - the accelerator dispatcher of gpu/gpu_transducer.h: the six entry   *)
(*     points, the order in which they launch their kernels and what they  *)
(*     do when a launch reports an error (SpecGpu);                        *)
(*   - the CPU kernels of cpu/cpu_kernels.h: denominators, log-probs, the  *)
(*     alpha/beta recurrences, costs and gradients, run over flat buffers  *)
(*     indexed exactly as TensorView indexes them (SpecCpu).               *)
(***************************************************************************)
EXTENDS Integers, Sequences, FiniteSets, TLC

VARIABLES
  gEntry,       \* gpu: the entry point being executed ("none" before a call)
  gGradients,   \* gpu: TRUE iff the gradients pointer is not nullptr
  gWpEnds,      \* gpu: TRUE iff the wpEnds pointer is not nullptr
  gPc,          \* gpu: position of the call: idle, a stage, returned, exited
  gStatus,      \* gpu: the status_t handed back to the caller ("NONE" so far)
  gLaunched,    \* gpu: the kernel launches of this call, in stream order
  arith,        \* cpu: "exact" (real arithmetic) or "rounded" (finite mantissa)
  blank,        \* cpu: options.blank_
  clamp,        \* cpu: options.clamp_
  lBuffer,      \* cpu: options.lBuffer_
  rBuffer,      \* cpu: options.rBuffer_
  logits,       \* cpu: [B, maxT, maxU, D] input, flat
  targets,      \* cpu: [B, maxU - 1] input, flat
  srcLengths,   \* cpu: [B]
  tgtLengths,   \* cpu: [B]
  wpEnds,       \* cpu: [B, maxU] flat, or <<>> for nullptr
  inplace,      \* cpu: TRUE iff the gradients pointer equals the logits pointer
  fusedLogSmax, \* options.fusedLogSmax_
  nHypos,       \* options.nHypos_ (H): hypotheses per utterance
  denominators, \* cpu workspace: [B, maxT, maxU]
  logProbs,     \* cpu workspace: [B, maxT, maxU] of {skip, emit}
  alphas,       \* cpu workspace: [B, maxT, maxU]
  betas,        \* cpu workspace: [B, maxT, maxU]
  scores,       \* cpu: the scores vector of ComputeAlphasBetas, 2 * B entries
  costs,        \* cpu output: [B]
  gradients,    \* cpu output: [B, maxT, maxU, D]
  cPc,          \* cpu: the stage the pipeline is in
  cIdx,         \* cpu: the loop variable of the running stage
  cDone         \* cpu: the iterations of the running stage's loop that are
                \* over, when the loop is run as a parallel for

gvars == <<gEntry, gGradients, gWpEnds, gPc, gStatus, gLaunched>>

inputs == <<arith, blank, clamp, lBuffer, rBuffer, targets, srcLengths,
            tgtLengths, wpEnds, inplace, fusedLogSmax, nHypos>>

cvars == <<inputs, logits, denominators, logProbs, alphas, betas, scores,
           costs, gradients, cPc, cIdx, cDone>>

vars == <<gvars, cvars>>

(***************************************************************************)
(* The accelerator dispatcher.                                             *)
(***************************************************************************)

EntryPoints ==
  {"Compute", "ComputeSparse", "ComputeAlphas", "ComputeAlphasSparse",
   "ComputeBetas", "ComputeBetasSparse"}

StatusCodes ==
  {"SUCCESS", "COMPUTE_DENOMINATOR_REDUCE_MAX_FAILED",
   "COMPUTE_DENOMINATOR_REDUCE_SUM_FAILED", "COMPUTE_LOG_PROBS_FAILED",
   "COMPUTE_ALPHAS_BETAS_COSTS_FAILED", "COMPUTE_GRADIENTS_FAILED"}

\* The stages in pipeline order.
Stages == <<"denominators", "logProbs", "alphasBetas", "gradients">>

StageNo(s) == CHOOSE i \in 1..Len(Stages) : Stages[i] = s

\* One kernel launch: what it reads and writes is what the launch site passes.
Launch(kernel, stage, reads, writes, err) ==
  [kernel |-> kernel, stage |-> stage, reads |-> reads, writes |-> writes,
   error |-> err]

\* gpuAssert: a non-success code ends the process (abort defaults to true).
gpuAssert(err) ==
  IF err THEN [pc |-> "exited", status |-> "NONE"]
         ELSE [pc |-> "continue", status |-> "NONE"]

\* A dispatcher that launches on without looking at the error.
AfterLaunchUnchecked(entry, err, code) ==
  [pc |-> "continue", status |-> "NONE"]

\* The check that follows a launch. ComputeSparse wraps cudaGetLastError() in
\* gpuErrchk; every other entry point compares it and returns the stage's code.
AfterLaunch(entry, err, code) ==
  IF entry = "ComputeSparse"
    THEN gpuAssert(err)
    ELSE IF err THEN [pc |-> "returned", status |-> code]
                ELSE [pc |-> "continue", status |-> "NONE"]

\* A dispatcher that launches the gradient kernel without testing the pointer.
HasGradientsAlways(g) == TRUE

\* gradients != nullptr
HasGradients(g) == g

Init0Gpu ==
  /\ gEntry = "none"
  /\ gGradients = FALSE
  /\ gWpEnds = FALSE
  /\ gPc = "idle"
  /\ gStatus = "NONE"
  /\ gLaunched = <<>>

\* A caller enters one of the entry points.
GpuCall(e, g, w) ==
  /\ gPc \in {"idle", "returned"}
  /\ gEntry' = e
  /\ gGradients' = (g /\ e \in {"Compute", "ComputeSparse"})
  /\ gWpEnds' = w
  /\ gPc' = "denominators"
  /\ gStatus' = "NONE"
  /\ gLaunched' = <<>>

\* LogSumExp2D: ReduceMax2D, then ReduceLogSumExpGivenMax2D; each launch is
\* followed by cudaGetLastError(), which also resets the error. The entry
\* point returns a non-SUCCESS status; the gpuErrchk(cudaGetLastError()) that
\* ComputeSparse adds reads the error LogSumExp2D has already reset.
GpuLogSumExp2D(errMax, errSum) ==
  LET max == Launch("ReduceMax2D", "denominators", {"logits"},
                    {"denominators"}, errMax)
      sum == Launch("ReduceLogSumExpGivenMax2D", "denominators",
                    {"logits", "denominators"}, {"denominators"}, errSum)
  IN IF errMax
       THEN [launches |-> <<max>>,
             status |-> "COMPUTE_DENOMINATOR_REDUCE_MAX_FAILED"]
       ELSE IF errSum
         THEN [launches |-> <<max, sum>>,
               status |-> "COMPUTE_DENOMINATOR_REDUCE_SUM_FAILED"]
         ELSE [launches |-> <<max, sum>>, status |-> "SUCCESS"]

StageDenominators(errMax, errSum) ==
  /\ gPc = "denominators"
  /\ LET r == GpuLogSumExp2D(errMax, errSum)
         lastError == FALSE   \* reset by the reads inside LogSumExp2D
         chk == IF gEntry = "ComputeSparse" THEN gpuAssert(lastError)
                ELSE [pc |-> "continue", status |-> "NONE"]
     IN /\ gLaunched' = gLaunched \o r.launches
        /\ IF chk.pc = "exited"
             THEN gPc' = "exited" /\ gStatus' = "NONE"
             ELSE IF r.status # "SUCCESS"
               THEN gPc' = "returned" /\ gStatus' = r.status
               ELSE gPc' = "logProbs" /\ gStatus' = "NONE"
  /\ UNCHANGED <<gEntry, gGradients, gWpEnds>>

LogProbsKernel(entry) ==
  IF entry \in {"ComputeSparse", "ComputeAlphasSparse", "ComputeBetasSparse"}
    THEN "ComputeLogProbsSparse" ELSE "ComputeLogProbs"

\* The fusedLogSmax argument of the log-probs launch: Compute and
\* ComputeSparse pass options.fusedLogSmax_, the Alphas and Betas variants
\* end the argument list at H and leave the parameter to its default.
FusedArgument(entry) ==
  IF entry \in {"Compute", "ComputeSparse"}
    THEN (IF fusedLogSmax THEN "true" ELSE "false")
    ELSE "default"

StageLogProbs(err) ==
  /\ gPc = "logProbs"
  /\ LET l == Launch(LogProbsKernel(gEntry), "logProbs",
                     {"logits", "targets", "srcLengths", "tgtLengths",
                      "denominators"}, {"logProbs"}, err)
                 @@ [fused |-> FusedArgument(gEntry)]
         chk == AfterLaunch(gEntry, err, "COMPUTE_LOG_PROBS_FAILED")
     IN /\ gLaunched' = Append(gLaunched, l)
        /\ gPc' = IF chk.pc = "continue" THEN "alphasBetas" ELSE chk.pc
        /\ gStatus' = chk.status
  /\ UNCHANGED <<gEntry, gGradients, gWpEnds>>

\* The kernel of the third block and the buffers it is handed.
AlphaBetaKernel(entry, wp) ==
  CASE entry \in {"Compute", "ComputeSparse"} ->
         [kernel |-> "ComputeAlphasBetasCosts",
          writes |-> {"alphaCounters", "alphas", "betaCounters", "betas",
                      "costs"}]
    [] entry = "ComputeAlphas" ->
         [kernel |-> IF wp THEN "ComputeAlphasRestrictedWrapper"
                           ELSE "ComputeAlphasWrapper",
          writes |-> {"alphaCounters", "alphasOut"}]
    [] entry = "ComputeAlphasSparse" ->
         [kernel |-> "ComputeAlphasRestrictedWrapper",
          writes |-> {"alphaCounters", "alphasOut"}]
    [] entry = "ComputeBetas" ->
         [kernel |-> IF wp THEN "ComputeBetasCostsRestrictedWrapper"
                           ELSE "ComputeBetasWrapper",
          writes |-> {"betaCounters", "betasOut", "costs"}]
    [] entry = "ComputeBetasSparse" ->
         [kernel |-> "ComputeBetasCostsRestrictedWrapper",
          writes |-> {"betaCounters", "betasOut", "costs"}]

\* Where an entry point goes after its third block succeeds.
AfterAlphasBetas(entry) ==
  IF entry \in {"Compute", "ComputeSparse"} THEN "gradients" ELSE "returned"

StageAlphasBetas(err) ==
  /\ gPc = "alphasBetas"
  /\ LET k == AlphaBetaKernel(gEntry, gWpEnds)
         l == Launch(k.kernel, "alphasBetas",
                     {"logProbs", "srcLengths", "tgtLengths"}, k.writes, err)
         chk == AfterLaunch(gEntry, err, "COMPUTE_ALPHAS_BETAS_COSTS_FAILED")
     IN /\ gLaunched' = Append(gLaunched, l)
        /\ IF chk.pc = "continue"
             THEN /\ gPc' = AfterAlphasBetas(gEntry)
                  /\ gStatus' = IF AfterAlphasBetas(gEntry) = "returned"
                                  THEN "SUCCESS" ELSE "NONE"
             ELSE gPc' = chk.pc /\ gStatus' = chk.status
  /\ UNCHANGED <<gEntry, gGradients, gWpEnds>>

\* if (gradients != nullptr) { launch ComputeGradients; check } return SUCCESS;
StageGradients(err) ==
  /\ gPc = "gradients"
  /\ IF HasGradients(gGradients)
       THEN LET l == Launch("ComputeGradients", "gradients",
                            {"logits", "targets", "srcLengths", "tgtLengths",
                             "denominators", "alphas", "betas"},
                            {"gradients"}, err)
                chk == AfterLaunch(gEntry, err, "COMPUTE_GRADIENTS_FAILED")
            IN /\ gLaunched' = Append(gLaunched, l)
               /\ gPc' = IF chk.pc = "continue" THEN "returned" ELSE chk.pc
               /\ gStatus' = IF chk.pc = "continue" THEN "SUCCESS"
                             ELSE chk.status
       ELSE /\ err = FALSE
            /\ gLaunched' = gLaunched
            /\ gPc' = "returned"
            /\ gStatus' = "SUCCESS"
  /\ UNCHANGED <<gEntry, gGradients, gWpEnds>>

(***************************************************************************)
(* Numbers.                                                                *)
(*                                                                         *)
(* The kernels compute in log space. A CAST_DTYPE value x is held here by  *)
(* the rational exp(x) = <<n, d>> in lowest terms, so that the code's `+`  *)
(* on log values is a product, `-` a quotient, unary minus a reciprocal,   *)
(* lse a sum, -INFINITY is <<0, 1>>, +INFINITY is <<1, 0>> and NaN is      *)
(* <<0, 0>>.  std::exp and std::log move between a log value and the       *)
(* number it stands for; results of std::exp (the gradients) are signed    *)
(* rationals.  With arith = "rounded" every operation rounds its result to *)
(* a mantissa of finitely many bits, as a float type does.  A location     *)
(* that was never written holds Undef, and every operation on Undef        *)
(* yields Undef.                                                           *)
(***************************************************************************)

\* Bounds of the model.
MaxSrcLen == 2      \* options.maxSrcLen_ (maxT)
MaxTgtLen == 2      \* options.maxTgtLen_ (maxU), the prepended blank included
NumTargets == 2     \* options.numTargets_ (D)
BatchSize == 2      \* options.batchSize_ (B)
MaxLogit == 3       \* logits are log(1) .. log(MaxLogit)
Mantissa == 8       \* rounded arithmetic keeps mantissas below this

maxT == MaxSrcLen
maxU == MaxTgtLen
D == NumTargets
B == BatchSize

Undef == <<0, -1>>
NaN == <<0, 0>>
NegInf == <<0, 1>>     \* DTYPE(-INFINITY)
PosInf == <<1, 0>>
Zero == <<1, 1>>       \* DTYPE(0)
LinZero == <<0, 1>>    \* the number 0.

IsUndef(a) == a[2] < 0

Abs(x) == IF x < 0 THEN -x ELSE x

RECURSIVE GCD(_, _)
GCD(a, b) == IF b = 0 THEN a ELSE GCD(b, a % b)

\* n / d in lowest terms; d >= 0.
Norm(n, d) ==
  IF d = 0 THEN (IF n > 0 THEN PosInf ELSE IF n < 0 THEN <<-1, 0>> ELSE NaN)
  ELSE LET g == GCD(Abs(n), d) IN <<n \div g, d \div g>>

\* The largest m * 2^e <= n / d with Mantissa / 2 <= m < Mantissa (n, d > 0).
RECURSIVE Trunc(_, _)
Trunc(n, d) ==
  IF n >= Mantissa * d
    THEN LET r == Trunc(n, 2 * d) IN <<2 * r[1], r[2]>>
    ELSE IF 2 * n < Mantissa * d
      THEN LET r == Trunc(2 * n, d) IN <<r[1], 2 * r[2]>>
      ELSE <<n \div d, 1>>

\* The value an operation stores: exact, or rounded towards zero.
Rnd(r) ==
  IF arith = "exact" \/ r[2] = 0 \/ r[1] = 0 THEN r
  ELSE LET m == Trunc(Abs(r[1]), r[2])
       IN Norm((IF r[1] < 0 THEN -1 ELSE 1) * m[1], m[2])

\* Products and sums are reduced before multiplying to keep the terms small.
RMul(a, b) ==
  IF a[1] = 0 \/ a[2] = 0 \/ b[1] = 0 \/ b[2] = 0
    THEN Norm(a[1] * b[1], a[2] * b[2])
    ELSE LET g1 == GCD(Abs(a[1]), b[2])
             g2 == GCD(Abs(b[1]), a[2])
         IN <<(a[1] \div g1) * (b[1] \div g2), (a[2] \div g2) * (b[2] \div g1)>>

RAdd(a, b) ==
  IF a[2] = 0 /\ b[2] = 0 THEN (IF a = b THEN a ELSE NaN)
  ELSE IF a[2] = 0 THEN a
  ELSE IF b[2] = 0 THEN b
  ELSE LET g == GCD(a[2], b[2])
       IN Norm(a[1] * (b[2] \div g) + b[1] * (a[2] \div g),
               (a[2] \div g) * b[2])

\* a < b on numbers (false when either is NaN).
RLess(a, b) ==
  /\ a # NaN /\ b # NaN
  /\ IF a[2] = 0 \/ b[2] = 0
       THEN (a[2] = 0 /\ a[1] < 0 /\ a # b) \/ (b[2] = 0 /\ b[1] > 0 /\ a # b)
       ELSE a[1] * b[2] < b[1] * a[2]

\* x + y on log values.
Plus(a, b) ==
  IF IsUndef(a) \/ IsUndef(b) THEN Undef ELSE Rnd(RMul(a, b))

\* x - y on log values.
Minus(a, b) ==
  IF IsUndef(a) \/ IsUndef(b) THEN Undef
  ELSE Rnd(RMul(a, Norm(b[2], b[1])))

\* -x on a log value.
Neg(a) == IF IsUndef(a) THEN Undef ELSE Norm(a[2], a[1])

\* math::lse(a, b) = max(a, b) + log1p(exp(-|a - b|)); lse(-inf, x) = x.
lse(a, b) ==
  IF IsUndef(a) \/ IsUndef(b) THEN Undef ELSE Rnd(RAdd(a, b))

\* std::exp of a log value: the number it stands for.
Exp(a) == a

\* std::log of a number: the log value that stands for it.
Log(a) == a

\* x + y and x - y on numbers.
LinAdd(a, b) ==
  IF IsUndef(a) \/ IsUndef(b) THEN Undef ELSE Rnd(RAdd(a, b))

LinSub(a, b) ==
  IF IsUndef(a) \/ IsUndef(b) THEN Undef
  ELSE Rnd(RAdd(a, <<-b[1], b[2]>>))

\* std::max on log values / math::min, math::max on numbers.
Max(a, b) ==
  IF IsUndef(a) \/ IsUndef(b) THEN Undef ELSE IF RLess(a, b) THEN b ELSE a

Min(a, b) ==
  IF IsUndef(a) \/ IsUndef(b) THEN Undef ELSE IF RLess(b, a) THEN b ELSE a

(***************************************************************************)
(* The CPU kernels.  All buffers are flat, 0-based, and indexed as         *)
(* TensorView::operator() does: row-major over the padded dimensions, the  *)
(* view of sample b starting at b times the size of one sample.            *)
(***************************************************************************)

\* TensorView({maxT, maxU}, base + b * maxT * maxU)({t, u})
Idx2(b, t, u) == b * maxT * maxU + t * maxU + u

\* TensorView({maxT, maxU, D}, base + b * maxT * maxU * D)({t, u, d})
Idx3(b, t, u, d) == b * maxT * maxU * D + t * maxU * D + u * D + d

\* (targets + b * (maxU - 1))[u]
TgtIdx(b, u) == b * (maxU - 1) + u

\* (wpEnds + b * maxU)[u]
WpIdx(b, u) == b * maxU + u

\* for (j = 1; j < D; ++j) max = std::max(max, logits[i + j]);
RECURSIVE RowMax(_, _, _, _)
RowMax(lg, i, j, max) ==
  IF j >= D THEN max ELSE RowMax(lg, i, j + 1, Max(max, lg[i + j]))

\* for (j = 0; j < D; ++j) sum = sum + std::exp(logits[i + j] - max);
RECURSIVE RowSum(_, _, _, _, _)
RowSum(lg, i, j, max, sum) ==
  IF j >= D THEN sum
  ELSE RowSum(lg, i, j + 1, max, LinAdd(sum, Exp(Minus(lg[i + j], max))))

\* outputs[i / D] = max + std::log(sum), for each of the N rows.
LogSumExp2D(N, lg, outputs) ==
  [r \in DOMAIN outputs |->
     IF r < N
       THEN LET max == RowMax(lg, r * D, 1, lg[r * D])
            IN Plus(max, Log(RowSum(lg, r * D, 0, max, LinZero)))
       ELSE outputs[r]]

\* Variant of EmitLogProb that leaves the logit unnormalised.
EmitLogProbUnnormalised(b, t, u) ==
  logits[Idx3(b, t, u, targets[TgtIdx(b, u)])]

\* logProbs({t, u}).emit() = logits({t, u, targets[u]}) - denom({t, u})
EmitLogProb(b, t, u) ==
  Minus(logits[Idx3(b, t, u, targets[TgtIdx(b, u)])],
        denominators[Idx2(b, t, u)])

\* logProbs({t, u}).skip() = logits({t, u, blank}) - denom({t, u})
SkipLogProb(b, t, u) ==
  Minus(logits[Idx3(b, t, u, blank)], denominators[Idx2(b, t, u)])

\* The loops of ComputeLogProbsOneSequence; k counts the (t, u) pairs.
RECURSIVE LogProbsLoop(_, _, _, _, _)
LogProbsLoop(lp, b, T, U, k) ==
  IF k >= T * U THEN lp
  ELSE LET t == k \div U
           u == k % U
           i == Idx2(b, t, u)
           e == IF u < U - 1 THEN EmitLogProb(b, t, u) ELSE lp[i].emit
       IN LogProbsLoop(
            [lp EXCEPT ![i] = [skip |-> SkipLogProb(b, t, u), emit |-> e]],
            b, T, U, k + 1)

ComputeLogProbsOneSequence(lp, b, T, U) == LogProbsLoop(lp, b, T, U, 0)

\* for (t = 1; t < T; ++t) alpha({t, 0}) = alpha({t-1, 0}) + skip(t-1, 0)
RECURSIVE AlphaFirstColumn(_, _, _, _)
AlphaFirstColumn(al, b, T, t) ==
  IF t >= T THEN al
  ELSE AlphaFirstColumn(
         [al EXCEPT ![Idx2(b, t, 0)] =
            Plus(al[Idx2(b, t - 1, 0)], logProbs[Idx2(b, t - 1, 0)].skip)],
         b, T, t + 1)

\* for (u = 1; u < U; ++u) alpha({0, u}) = alpha({0, u-1}) + emit(0, u-1)
RECURSIVE AlphaFirstRow(_, _, _, _)
AlphaFirstRow(al, b, U, u) ==
  IF u >= U THEN al
  ELSE AlphaFirstRow(
         [al EXCEPT ![Idx2(b, 0, u)] =
            Plus(al[Idx2(b, 0, u - 1)], logProbs[Idx2(b, 0, u - 1)].emit)],
         b, U, u + 1)

\* Variant of AlphaCell that takes the blank transition's log-probability at
\* the cell entered instead of the cell left.
AlphaCellSkipAtTarget(al, b, t, u) ==
  lse(Plus(al[Idx2(b, t - 1, u)], logProbs[Idx2(b, t, u)].skip),
      Plus(al[Idx2(b, t, u - 1)], logProbs[Idx2(b, t, u - 1)].emit))

\* alpha({t, u}) = lse(alpha({t-1, u}) + skip(t-1, u),
\*                     alpha({t, u-1}) + emit(t, u-1))
AlphaCell(al, b, t, u) ==
  lse(Plus(al[Idx2(b, t - 1, u)], logProbs[Idx2(b, t - 1, u)].skip),
      Plus(al[Idx2(b, t, u - 1)], logProbs[Idx2(b, t, u - 1)].emit))

\* for (t = 1; t < T; ++t) for (u = 1; u < U; ++u); k counts the pairs.
RECURSIVE AlphaInterior(_, _, _, _, _)
AlphaInterior(al, b, T, U, k) ==
  IF k >= (T - 1) * (U - 1) THEN al
  ELSE LET t == 1 + (k \div (U - 1))
           u == 1 + (k % (U - 1))
       IN AlphaInterior(
            [al EXCEPT ![Idx2(b, t, u)] = AlphaCell(al, b, t, u)],
            b, T, U, k + 1)

\* Variant of ForwardScore that omits the final blank.
ForwardScoreNoSkip(al, b, T, U) == al[Idx2(b, T - 1, U - 1)]

\* forward_score = alpha({T-1, U-1}) + logProbs({T-1, U-1}).skip()
ForwardScore(al, b, T, U) ==
  Plus(al[Idx2(b, T - 1, U - 1)], logProbs[Idx2(b, T - 1, U - 1)].skip)

ComputeAlphaOneSequence(al, b, T, U) ==
  LET a0 == [al EXCEPT ![Idx2(b, 0, 0)] = Zero]
      a1 == AlphaFirstColumn(a0, b, T, 1)
      a2 == AlphaFirstRow(a1, b, U, 1)
      a3 == AlphaInterior(a2, b, T, U, 0)
  IN [buf |-> a3, score |-> ForwardScore(a3, b, T, U)]

\* beta({T-1, U-1}) = logProbs({T-1, U-1}).skip()
BetaTerminal(b, T, U) == logProbs[Idx2(b, T - 1, U - 1)].skip

\* for (t = T - 2; t >= 0; --t) beta({t, U-1}) = beta({t+1, U-1}) + skip(t, U-1)
RECURSIVE BetaLastColumn(_, _, _, _)
BetaLastColumn(be, b, U, t) ==
  IF t < 0 THEN be
  ELSE BetaLastColumn(
         [be EXCEPT ![Idx2(b, t, U - 1)] =
            Plus(be[Idx2(b, t + 1, U - 1)], logProbs[Idx2(b, t, U - 1)].skip)],
         b, U, t - 1)

\* for (u = U - 2; u >= 0; --u) beta({T-1, u}) = beta({T-1, u+1}) + emit(T-1, u)
RECURSIVE BetaLastRow(_, _, _, _)
BetaLastRow(be, b, T, u) ==
  IF u < 0 THEN be
  ELSE BetaLastRow(
         [be EXCEPT ![Idx2(b, T - 1, u)] =
            Plus(be[Idx2(b, T - 1, u + 1)], logProbs[Idx2(b, T - 1, u)].emit)],
         b, T, u - 1)

\* Variant of BetaCell with the two successors exchanged.
BetaCellSwapped(be, b, t, u) ==
  lse(Plus(be[Idx2(b, t, u + 1)], logProbs[Idx2(b, t, u)].skip),
      Plus(be[Idx2(b, t + 1, u)], logProbs[Idx2(b, t, u)].emit))

\* beta({t, u}) = lse(beta({t+1, u}) + skip(t, u), beta({t, u+1}) + emit(t, u))
BetaCell(be, b, t, u) ==
  lse(Plus(be[Idx2(b, t + 1, u)], logProbs[Idx2(b, t, u)].skip),
      Plus(be[Idx2(b, t, u + 1)], logProbs[Idx2(b, t, u)].emit))

\* for (t = T - 2; t >= 0; --t) for (u = U - 2; u >= 0; --u)
RECURSIVE BetaInterior(_, _, _, _, _)
BetaInterior(be, b, T, U, k) ==
  IF k >= (T - 1) * (U - 1) THEN be
  ELSE LET t == T - 2 - (k \div (U - 1))
           u == U - 2 - (k % (U - 1))
       IN BetaInterior(
            [be EXCEPT ![Idx2(b, t, u)] = BetaCell(be, b, t, u)],
            b, T, U, k + 1)

\* backward_score = beta({0, 0})
BackwardScore(be, b) == be[Idx2(b, 0, 0)]

ComputeBetaOneSequence(be, b, T, U) ==
  LET b0 == [be EXCEPT ![Idx2(b, T - 1, U - 1)] = BetaTerminal(b, T, U)]
      b1 == BetaLastColumn(b0, b, U, T - 2)
      b2 == BetaLastRow(b1, b, T, U - 2)
      b3 == BetaInterior(b2, b, T, U, 0)
  IN [buf |-> b3, score |-> BackwardScore(b3, b)]

(***************************************************************************)
(* AlignmentRestrictionCheck (cpu/alignment_restrictions.h): a window      *)
(* around the word-piece end times.  Cell (t, u) is inside the window when *)
(* label u may already have been emitted at frame t and label u + 1 may    *)
(* still be emitted at frame t or later.                                   *)
(***************************************************************************)

\* validTimeRanges(u, start_t, end_t): both ends inclusive.
validTimeRanges(b, T, U, u) ==
  LET lo == IF u = 0 THEN 0 ELSE wpEnds[WpIdx(b, u)] - lBuffer
      hi == IF u = U - 1 THEN T - 1 ELSE wpEnds[WpIdx(b, u + 1)] + rBuffer
  IN [start |-> IF lo < 0 THEN 0 ELSE lo,
      end |-> IF hi > T - 1 THEN T - 1 ELSE hi]

InWindow(b, T, U, t, u) ==
  /\ 0 <= t /\ t < T /\ 0 <= u /\ u < U
  /\ validTimeRanges(b, T, U, u).start <= t
  /\ t <= validTimeRanges(b, T, U, u).end

\* (t - 1, u) -> (t, u)
alphaBlankTransition(b, T, U, t, u) ==
  InWindow(b, T, U, t - 1, u) /\ InWindow(b, T, U, t, u)

\* (t, u - 1) -> (t, u)
alphaEmitTransition(b, T, U, t, u) ==
  InWindow(b, T, U, t, u - 1) /\ InWindow(b, T, U, t, u)

\* (t, u) -> (t + 1, u)
betaBlankTransition(b, T, U, t, u) ==
  InWindow(b, T, U, t, u) /\ InWindow(b, T, U, t + 1, u)

\* (t, u) -> (t, u + 1)
betaEmitTransition(b, T, U, t, u) ==
  InWindow(b, T, U, t, u) /\ InWindow(b, T, U, t, u + 1)

(***************************************************************************)
(* The restricted recurrences.                                             *)
(***************************************************************************)

\* for (t < T) for (u < U) buf({t, u}) = -INFINITY
FillNegInf(buf, b, T, U) ==
  [i \in DOMAIN buf |->
     IF \E t \in 0..(T - 1), u \in 0..(U - 1) : i = Idx2(b, t, u)
       THEN NegInf ELSE buf[i]]

\* for (t = 1; t < T; ++t) { if (!alphaBlankTransition(t, 0)) break; ... }
RECURSIVE AlphaFirstColumnRestricted(_, _, _, _, _)
AlphaFirstColumnRestricted(al, b, T, U, t) ==
  IF t >= T \/ ~alphaBlankTransition(b, T, U, t, 0) THEN al
  ELSE AlphaFirstColumnRestricted(
         [al EXCEPT ![Idx2(b, t, 0)] =
            Plus(al[Idx2(b, t - 1, 0)], logProbs[Idx2(b, t - 1, 0)].skip)],
         b, T, U, t + 1)

\* for (u = 1; u < U; ++u) { if (!alphaEmitTransition(0, u)) break; ... }
RECURSIVE AlphaFirstRowRestricted(_, _, _, _, _)
AlphaFirstRowRestricted(al, b, T, U, u) ==
  IF u >= U \/ ~alphaEmitTransition(b, T, U, 0, u) THEN al
  ELSE AlphaFirstRowRestricted(
         [al EXCEPT ![Idx2(b, 0, u)] =
            Plus(al[Idx2(b, 0, u - 1)], logProbs[Idx2(b, 0, u - 1)].emit)],
         b, T, U, u + 1)

\* Variant of AlphaCellRestricted that leaves out the emit contribution.
AlphaCellRestrictedSkipOnly(al, b, T, U, t, u) ==
  LET skip == IF alphaBlankTransition(b, T, U, t, u)
                THEN Plus(al[Idx2(b, t - 1, u)],
                          logProbs[Idx2(b, t - 1, u)].skip)
                ELSE NegInf
  IN IF skip # NegInf
       THEN [al EXCEPT ![Idx2(b, t, u)] = lse(skip, NegInf)]
       ELSE al

\* The body of the interior loop of ComputeAlphaOneSequenceRestricted.
AlphaCellRestricted(al, b, T, U, t, u) ==
  LET skip == IF alphaBlankTransition(b, T, U, t, u)
                THEN Plus(al[Idx2(b, t - 1, u)],
                          logProbs[Idx2(b, t - 1, u)].skip)
                ELSE NegInf
      emit == IF alphaEmitTransition(b, T, U, t, u)
                THEN Plus(al[Idx2(b, t, u - 1)],
                          logProbs[Idx2(b, t, u - 1)].emit)
                ELSE NegInf
  IN IF skip # NegInf \/ emit # NegInf
       THEN [al EXCEPT ![Idx2(b, t, u)] = lse(skip, emit)]
       ELSE al

\* for (t = start_t; t < end_t + 1; ++t)
RECURSIVE AlphaWindow(_, _, _, _, _, _)
AlphaWindow(al, b, T, U, u, t) ==
  IF t >= validTimeRanges(b, T, U, u).end + 1 THEN al
  ELSE AlphaWindow(AlphaCellRestricted(al, b, T, U, t, u), b, T, U, u, t + 1)

\* for (u = 1; u < U; ++u)
RECURSIVE AlphaInteriorRestricted(_, _, _, _, _)
AlphaInteriorRestricted(al, b, T, U, u) ==
  IF u >= U THEN al
  ELSE AlphaInteriorRestricted(
         AlphaWindow(al, b, T, U, u, validTimeRanges(b, T, U, u).start),
         b, T, U, u + 1)

ComputeAlphaOneSequenceRestricted(al, b, T, U) ==
  LET a0 == [FillNegInf(al, b, T, U) EXCEPT ![Idx2(b, 0, 0)] = Zero]
      a1 == AlphaFirstColumnRestricted(a0, b, T, U, 1)
      a2 == AlphaFirstRowRestricted(a1, b, T, U, 1)
      a3 == AlphaInteriorRestricted(a2, b, T, U, 1)
  IN [buf |-> a3, score |-> ForwardScore(a3, b, T, U)]

\* for (t = T - 2; t >= 0; --t) { if (!betaBlankTransition(t, U-1)) break; ... }
RECURSIVE BetaLastColumnRestricted(_, _, _, _, _)
BetaLastColumnRestricted(be, b, T, U, t) ==
  IF t < 0 \/ ~betaBlankTransition(b, T, U, t, U - 1) THEN be
  ELSE BetaLastColumnRestricted(
         [be EXCEPT ![Idx2(b, t, U - 1)] =
            Plus(be[Idx2(b, t + 1, U - 1)], logProbs[Idx2(b, t, U - 1)].skip)],
         b, T, U, t - 1)

\* for (u = U - 2; u >= 0; --u) { if (!betaEmitTransition(T-1, u)) break; ... }
RECURSIVE BetaLastRowRestricted(_, _, _, _, _)
BetaLastRowRestricted(be, b, T, U, u) ==
  IF u < 0 \/ ~betaEmitTransition(b, T, U, T - 1, u) THEN be
  ELSE BetaLastRowRestricted(
         [be EXCEPT ![Idx2(b, T - 1, u)] =
            Plus(be[Idx2(b, T - 1, u + 1)], logProbs[Idx2(b, T - 1, u)].emit)],
         b, T, U, u - 1)

\* Variant of BetaCellRestricted that takes the emit contribution without
\* asking betaEmitTransition.
BetaCellRestrictedEmitUnchecked(be, b, T, U, t, u) ==
  LET skip == IF betaBlankTransition(b, T, U, t, u)
                THEN Plus(be[Idx2(b, t + 1, u)], logProbs[Idx2(b, t, u)].skip)
                ELSE NegInf
      emit == Plus(be[Idx2(b, t, u + 1)], logProbs[Idx2(b, t, u)].emit)
  IN IF skip # NegInf \/ emit # NegInf
       THEN [be EXCEPT ![Idx2(b, t, u)] = lse(skip, emit)]
       ELSE be

\* The body of the interior loop of ComputeBetaOneSequenceRestricted.
BetaCellRestricted(be, b, T, U, t, u) ==
  LET skip == IF betaBlankTransition(b, T, U, t, u)
                THEN Plus(be[Idx2(b, t + 1, u)], logProbs[Idx2(b, t, u)].skip)
                ELSE NegInf
      emit == IF betaEmitTransition(b, T, U, t, u)
                THEN Plus(be[Idx2(b, t, u + 1)], logProbs[Idx2(b, t, u)].emit)
                ELSE NegInf
  IN IF skip # NegInf \/ emit # NegInf
       THEN [be EXCEPT ![Idx2(b, t, u)] = lse(skip, emit)]
       ELSE be

\* for (t = end_t; t >= start_t; --t)
RECURSIVE BetaWindow(_, _, _, _, _, _)
BetaWindow(be, b, T, U, u, t) ==
  IF t < validTimeRanges(b, T, U, u).start THEN be
  ELSE BetaWindow(BetaCellRestricted(be, b, T, U, t, u), b, T, U, u, t - 1)

\* for (u = U - 2; u >= 0; --u)
RECURSIVE BetaInteriorRestricted(_, _, _, _, _)
BetaInteriorRestricted(be, b, T, U, u) ==
  IF u < 0 THEN be
  ELSE BetaInteriorRestricted(
         BetaWindow(be, b, T, U, u, validTimeRanges(b, T, U, u).end),
         b, T, U, u - 1)

ComputeBetaOneSequenceRestricted(be, b, T, U) ==
  LET b0 == [FillNegInf(be, b, T, U) EXCEPT
               ![Idx2(b, T - 1, U - 1)] = BetaTerminal(b, T, U)]
      b1 == BetaLastColumnRestricted(b0, b, T, U, T - 2)
      b2 == BetaLastRowRestricted(b1, b, T, U, U - 2)
      b3 == BetaInteriorRestricted(b2, b, T, U, U - 2)
  IN [buf |-> b3, score |-> BackwardScore(b3, b)]

\* ComputeAlphaOrBetaOneSequence, odd thread: the restricted routine is taken
\* when wpEnds is not nullptr.
AlphaTask(al, b, T, U) ==
  IF wpEnds = <<>> THEN ComputeAlphaOneSequence(al, b, T, U)
  ELSE ComputeAlphaOneSequenceRestricted(al, b, T, U)

\* ComputeAlphaOrBetaOneSequence, even thread.
BetaTask(be, b, T, U) ==
  IF wpEnds = <<>> THEN ComputeBetaOneSequence(be, b, T, U)
  ELSE ComputeBetaOneSequenceRestricted(be, b, T, U)

\* ComputeAlphaOrBetaOneSequence: odd threads run alpha, even threads beta.
ComputeAlphaOrBetaOneSequence(thread, b, T, U) ==
  IF thread % 2 = 1
    THEN [kind |-> "alpha", r |-> AlphaTask(alphas, b, T, U)]
    ELSE [kind |-> "beta", r |-> BetaTask(betas, b, T, U)]

\* Variant of CostOfSample that takes the score of the odd (alpha) task.
CostOfSampleFromAlpha(sc, b) == Neg(sc[2 * b + 1])

\* costs[b] = -scores[b << 1]
CostOfSample(sc, b) == Neg(sc[2 * b])

(***************************************************************************)
(* Gradients.  lg is the logits memory and gr the gradients memory as the  *)
(* loop sees them; when the two pointers are equal a write to gradients    *)
(* is a write to logits as well.                                           *)
(***************************************************************************)

\* Variant of GradientValue that tests the emit branch before the blank
\* branch.
GradientValueEmitFirst(lg, b, T, U, t, u, d, cost) ==
  LET c == Minus(Plus(alphas[Idx2(b, t, u)], cost),
                 denominators[Idx2(b, t, u)])
      g == Plus(lg[Idx3(b, t, u, d)], c)
      here == Exp(Plus(g, betas[Idx2(b, t, u)]))
  IN IF d = blank /\ t = T - 1 /\ u = U - 1
       THEN LinSub(here, Exp(g))
     ELSE IF u < U - 1 /\ d = targets[TgtIdx(b, u)]
       THEN LinSub(here, Exp(Plus(g, betas[Idx2(b, t, u + 1)])))
     ELSE IF d = blank /\ t < T - 1
       THEN LinSub(here, Exp(Plus(g, betas[Idx2(b, t + 1, u)])))
     ELSE here

\* Variant of GradientValue whose emit branch is bounded by the padded
\* width maxU instead of the sample's U.
GradientValuePaddedWidth(lg, b, T, U, t, u, d, cost) ==
  LET c == Minus(Plus(alphas[Idx2(b, t, u)], cost),
                 denominators[Idx2(b, t, u)])
      g == Plus(lg[Idx3(b, t, u, d)], c)
      here == Exp(Plus(g, betas[Idx2(b, t, u)]))
  IN IF d = blank /\ t = T - 1 /\ u = U - 1
       THEN LinSub(here, Exp(g))
     ELSE IF d = blank /\ t < T - 1
       THEN LinSub(here, Exp(Plus(g, betas[Idx2(b, t + 1, u)])))
     ELSE IF u < maxU - 1 /\ d = targets[TgtIdx(b, u)]
       THEN LinSub(here, Exp(Plus(g, betas[Idx2(b, t, u + 1)])))
     ELSE here

\* The if / else-if chain of ComputeGradientsOneSequence for one (t, u, d).
GradientValue(lg, b, T, U, t, u, d, cost) ==
  LET c == Minus(Plus(alphas[Idx2(b, t, u)], cost),
                 denominators[Idx2(b, t, u)])
      g == Plus(lg[Idx3(b, t, u, d)], c)
      here == Exp(Plus(g, betas[Idx2(b, t, u)]))
  IN IF d = blank /\ t = T - 1 /\ u = U - 1
       THEN LinSub(here, Exp(g))
     ELSE IF d = blank /\ t < T - 1
       THEN LinSub(here, Exp(Plus(g, betas[Idx2(b, t + 1, u)])))
     ELSE IF u < U - 1 /\ d = targets[TgtIdx(b, u)]
       THEN LinSub(here, Exp(Plus(g, betas[Idx2(b, t, u + 1)])))
     ELSE here

\* Variant of Clamp that applies the upper bound only.
ClampUpperOnly(v) ==
  IF RLess(LinZero, clamp) THEN Min(v, clamp) ELSE v

\* if (clamp > 0) { g = math::min(g, clamp); g = math::max(g, -clamp); }
Clamp(v) ==
  IF RLess(LinZero, clamp)
    THEN Max(Min(v, clamp), <<-clamp[1], clamp[2]>>)
    ELSE v

\* Variant of GradientLoop that stores every value through the logits view
\* as well, whether or not the two buffers are the same memory.
RECURSIVE GradientLoopAliased(_, _, _, _, _, _)
GradientLoopAliased(mem, b, T, U, cost, k) ==
  IF k >= T * U * D THEN mem
  ELSE LET t == k \div (U * D)
           u == (k \div D) % U
           d == k % D
           v == Clamp(GradientValue(mem.lg, b, T, U, t, u, d, cost))
           i == Idx3(b, t, u, d)
       IN GradientLoopAliased(
            [lg |-> [mem.lg EXCEPT ![i] = v],
             gr |-> [mem.gr EXCEPT ![i] = v]],
            b, T, U, cost, k + 1)

\* Variant of GradientLoop that evaluates the chain a second time for the
\* clamp step, after the unclamped value has been stored.
RECURSIVE GradientLoopReread(_, _, _, _, _, _)
GradientLoopReread(mem, b, T, U, cost, k) ==
  IF k >= T * U * D THEN mem
  ELSE LET t == k \div (U * D)
           u == (k \div D) % U
           d == k % D
           i == Idx3(b, t, u, d)
           v == GradientValue(mem.lg, b, T, U, t, u, d, cost)
           lg1 == IF inplace THEN [mem.lg EXCEPT ![i] = v] ELSE mem.lg
           w == Clamp(GradientValue(lg1, b, T, U, t, u, d, cost))
       IN GradientLoopReread(
            [lg |-> IF inplace THEN [mem.lg EXCEPT ![i] = w] ELSE mem.lg,
             gr |-> [mem.gr EXCEPT ![i] = w]],
            b, T, U, cost, k + 1)

\* for (t < T) for (u < U) for (d < D); k counts the triples.
RECURSIVE GradientLoop(_, _, _, _, _, _)
GradientLoop(mem, b, T, U, cost, k) ==
  IF k >= T * U * D THEN mem
  ELSE LET t == k \div (U * D)
           u == (k \div D) % U
           d == k % D
           v == Clamp(GradientValue(mem.lg, b, T, U, t, u, d, cost))
           i == Idx3(b, t, u, d)
       IN GradientLoop(
            [lg |-> IF inplace THEN [mem.lg EXCEPT ![i] = v] ELSE mem.lg,
             gr |-> [mem.gr EXCEPT ![i] = v]],
            b, T, U, cost, k + 1)

\* Variant of ZeroPadding whose second loop starts one column early.
ZeroPaddingFromLastColumn(buf, b, T, U) ==
  [i \in DOMAIN buf |->
     IF \E t \in 0..(maxT - 1), u \in 0..(maxU - 1), d \in 0..(D - 1) :
          /\ i = Idx3(b, t, u, d)
          /\ (t >= T \/ (t < T /\ u >= U - 1))
       THEN LinZero ELSE buf[i]]

\* Variant of ZeroPadding whose first loop runs to the end of the buffer
\* instead of the end of the sample's view.
ZeroPaddingPastView(buf, b, T, U) ==
  [i \in DOMAIN buf |->
     IF \/ i >= Idx3(b, T, 0, 0)
        \/ \E t \in 0..(T - 1), u \in U..(maxU - 1), d \in 0..(D - 1) :
             i = Idx3(b, t, u, d)
       THEN LinZero ELSE buf[i]]

\* The two zeroing loops: t in [T, maxT), and t < T with u in [U, maxU).
ZeroPadding(buf, b, T, U) ==
  [i \in DOMAIN buf |->
     IF \E t \in 0..(maxT - 1), u \in 0..(maxU - 1), d \in 0..(D - 1) :
          /\ i = Idx3(b, t, u, d)
          /\ (t >= T \/ (t < T /\ u >= U))
       THEN LinZero ELSE buf[i]]

ComputeGradientsOneSequence(mem, b, T, U) ==
  LET cost == Neg(betas[Idx2(b, 0, 0)])
      m == GradientLoop(mem, b, T, U, cost, 0)
  IN IF inplace   \* &gradients({0, 0, 0}) == &logits({0, 0, 0})
       THEN [lg |-> ZeroPadding(m.lg, b, T, U),
             gr |-> ZeroPadding(m.gr, b, T, U)]
       ELSE m

(***************************************************************************)
(* The CPU pipeline: one action per stage, or per iteration of a stage's   *)
(* loop over the samples.                                                  *)
(***************************************************************************)

Samples == 0..(B - 1)

\* The stages run in the order the pipeline prescribes.
NextStage(stage) ==
  CASE stage = "denominators" -> "logProbs"
    [] stage = "logProbs" -> "alphasBetas"
    [] stage = "alphasBetas" -> "costs"
    [] stage = "costs" -> "gradients"
    [] stage = "gradients" -> "done"

\* LogSumExp2D over the B * maxT * maxU rows of logits.
CpuDenominators ==
  /\ cPc = "denominators"
  /\ denominators' = LogSumExp2D(B * maxT * maxU, logits, denominators)
  /\ cPc' = NextStage(cPc)
  /\ cIdx' = 0
  /\ UNCHANGED <<inputs, logits, logProbs, alphas, betas, scores, costs,
                 gradients>>

\* ComputeLogProbs: iteration b = cIdx of the loop over the samples.
ComputeLogProbs ==
  /\ cPc = "logProbs"
  /\ logProbs' = ComputeLogProbsOneSequence(
                   logProbs, cIdx, srcLengths[cIdx], tgtLengths[cIdx] + 1)
  /\ IF cIdx + 1 < B
       THEN cIdx' = cIdx + 1 /\ cPc' = cPc
       ELSE cIdx' = 0 /\ cPc' = NextStage(cPc)
  /\ UNCHANGED <<inputs, logits, denominators, alphas, betas, scores, costs,
                 gradients>>

\* ComputeAlphasBetas: iteration t = cIdx of the loop over the 2 * B tasks.
AlphaBetaTask ==
  /\ cPc = "alphasBetas"
  /\ LET i == cIdx \div 2
         o == ComputeAlphaOrBetaOneSequence(
                cIdx, i, srcLengths[i], tgtLengths[i] + 1)
     IN /\ scores' = [scores EXCEPT ![cIdx] = o.r.score]
        /\ alphas' = IF o.kind = "alpha" THEN o.r.buf ELSE alphas
        /\ betas' = IF o.kind = "beta" THEN o.r.buf ELSE betas
  /\ IF cIdx + 1 < 2 * B
       THEN cIdx' = cIdx + 1 /\ cPc' = cPc
       ELSE cIdx' = 0 /\ cPc' = NextStage(cPc)
  /\ UNCHANGED <<inputs, logits, denominators, logProbs, costs, gradients>>

\* ComputeAlphasBetas: for (b < B) costs[b] = -scores[b << 1];
ComputeCosts ==
  /\ cPc = "costs"
  /\ costs' = [b \in DOMAIN costs |->
                 IF b \in Samples THEN CostOfSample(scores, b) ELSE costs[b]]
  /\ cPc' = NextStage(cPc)
  /\ cIdx' = 0
  /\ UNCHANGED <<inputs, logits, denominators, logProbs, alphas, betas,
                 scores, gradients>>

\* ComputeGradients: iteration b = cIdx of the loop over the samples.
ComputeGradients ==
  /\ cPc = "gradients"
  /\ LET m == ComputeGradientsOneSequence(
                [lg |-> logits, gr |-> gradients],
                cIdx, srcLengths[cIdx], tgtLengths[cIdx] + 1)
     IN logits' = m.lg /\ gradients' = m.gr
  /\ IF cIdx + 1 < B
       THEN cIdx' = cIdx + 1 /\ cPc' = cPc
       ELSE cIdx' = 0 /\ cPc' = NextStage(cPc)
  /\ UNCHANGED <<inputs, denominators, logProbs, alphas, betas, scores, costs>>

\* The inputs of one call.  Sample b's lengths, targets and logits are those
\* of sample 0 shifted by b, so that the samples of a batch differ; logit
\* (b, t, u, d) is log(1 + (p * d + q * (t * maxU + u) + b) % MaxLogit).
LogitOf(p, q, i) ==
  <<1 + ((p * (i % D) + q * ((i \div D) % (maxT * maxU)) +
          (i \div (D * maxU * maxT))) % MaxLogit), 1>>

Cells == 0..(B * maxT * maxU - 1)

\* A value some earlier use of a buffer left in it.
Stale == <<3, 1>>

\* What the caller's buffers hold in their padding cells (t >= T_b or
\* u > U_b, and targets[u] for u >= U_b): "formula" continues the in-range
\* contents, "poison" is a value that spoils whatever is computed from it,
\* "stale" is a left-over value and another label.
PadKinds == {"formula", "poison", "stale"}

LogitInRange(i) ==
  LET b == i \div (D * maxU * maxT)
      t == (i \div (D * maxU)) % maxT
      u == (i \div D) % maxU
  IN t < srcLengths[b] /\ u < tgtLengths[b] + 1

TargetInRange(i) == i % (maxU - 1) < tgtLengths[i \div (maxU - 1)]

\* The inputs of one call whose source lengths are at least minT.
InitInputsFrom(minT, ariths, clamps, inplaces, windows, pads) ==
  /\ arith \in ariths
  /\ clamp \in clamps
  /\ inplace \in inplaces
  /\ blank \in 0..(D - 1)
  /\ \E tl \in 0..(maxT - minT), ul \in 0..(maxU - 1) :
       /\ srcLengths = [b \in Samples |->
                          minT + ((tl + b) % (maxT + 1 - minT))]
       /\ tgtLengths = [b \in Samples |-> (ul + b) % maxU]
  /\ \E pad \in pads :
       /\ \E ts \in 0..(D - 1) :
            targets = [i \in 0..(B * (maxU - 1) - 1) |->
                         IF pad = "formula" \/ TargetInRange(i)
                           THEN (ts + i) % D ELSE (ts + i + 1) % D]
       /\ \E p \in {0, 1}, q \in {0, 1} :
            logits = [i \in 0..(B * maxT * maxU * D - 1) |->
                        IF pad = "formula" \/ LogitInRange(i)
                          THEN LogitOf(p, q, i)
                        ELSE IF pad = "poison" THEN Undef ELSE Stale]
  /\ \E w \in windows :
       /\ lBuffer = w.l
       /\ rBuffer = w.r
       /\ wpEnds = IF w.first < 0 THEN <<>>
                   ELSE IF "ends" \in DOMAIN w
                     THEN [i \in 0..(B * maxU - 1) |-> w.ends[i % maxU]]
                   ELSE [i \in 0..(B * maxU - 1) |->
                           IF w.first + (i % maxU) > maxT - 1 THEN maxT - 1
                           ELSE w.first + (i % maxU)]

\* The inputs of one call with every source length at least 1.
InitInputsPadded(ariths, clamps, inplaces, windows, pads) ==
  InitInputsFrom(1, ariths, clamps, inplaces, windows, pads)

InitInputs(ariths, clamps, inplaces, windows) ==
  InitInputsPadded(ariths, clamps, inplaces, windows, {"formula"})

\* The workspace and the outputs before the first stage: never written.
InitBuffers ==
  /\ denominators = [i \in Cells |-> Undef]
  /\ logProbs = [i \in Cells |-> [skip |-> Undef, emit |-> Undef]]
  /\ alphas = [i \in Cells |-> Undef]
  /\ betas = [i \in Cells |-> Undef]
  /\ scores = [t \in 0..(2 * B - 1) |-> Undef]
  /\ costs = [b \in Samples |-> Undef]
  /\ gradients = IF inplace THEN logits
                 ELSE [i \in DOMAIN logits |-> Undef]
  /\ cPc = "denominators"
  /\ cIdx = 0
  /\ cDone = {}

\* wpEnds == nullptr
Unrestricted == [first |-> -1, l |-> 0, r |-> 0]

\* wpEnds[b][u] = min(first + u, maxT - 1) with lBuffer = rBuffer = buf.
MaxBuffer == 1
Windows ==
  {[first |-> f, l |-> buf, r |-> buf] : f \in {0, maxT - 1},
                                         buf \in {0, MaxBuffer}}

InitCpu ==
  /\ Init0Gpu
  /\ fusedLogSmax = TRUE
  /\ nHypos = 1
  /\ InitInputs({"exact", "rounded"}, {<<0, 1>>}, {FALSE},
                {Unrestricted} \cup Windows)
  /\ InitBuffers

NextCpu ==
  \/ CpuDenominators /\ UNCHANGED <<gvars, cDone>>
  \/ ComputeLogProbs /\ UNCHANGED <<gvars, cDone>>
  \/ AlphaBetaTask /\ UNCHANGED <<gvars, cDone>>
  \/ ComputeCosts /\ UNCHANGED <<gvars, cDone>>
  \/ ComputeGradients /\ UNCHANGED <<gvars, cDone>>

SpecCpu == InitCpu /\ [][NextCpu]_vars

(***************************************************************************)
(* Specifications.                                                         *)
(***************************************************************************)

\* The CPU buffers while only the dispatcher is exercised.
CpuParked ==
  /\ arith = "exact" /\ blank = 0 /\ clamp = <<0, 1>>
  /\ lBuffer = 0 /\ rBuffer = 0
  /\ logits = <<>> /\ targets = <<>> /\ srcLengths = <<>> /\ tgtLengths = <<>>
  /\ wpEnds = <<>> /\ inplace = FALSE
  /\ denominators = <<>> /\ logProbs = <<>> /\ alphas = <<>> /\ betas = <<>>
  /\ scores = <<>> /\ costs = <<>> /\ gradients = <<>>
  /\ cPc = "parked" /\ cIdx = 0 /\ cDone = {}

InitGpu == Init0Gpu /\ CpuParked /\ fusedLogSmax \in BOOLEAN /\ nHypos = 1

Call == \E e \in EntryPoints, g \in BOOLEAN, w \in BOOLEAN :
          GpuCall(e, g, w) /\ UNCHANGED cvars
Denominators == \E errMax \in BOOLEAN, errSum \in BOOLEAN :
          StageDenominators(errMax, errSum) /\ UNCHANGED cvars
LogProbsLaunch == \E err \in BOOLEAN : StageLogProbs(err) /\ UNCHANGED cvars
AlphasBetasLaunch == \E err \in BOOLEAN :
          StageAlphasBetas(err) /\ UNCHANGED cvars
GradientsLaunch == \E err \in BOOLEAN : StageGradients(err) /\ UNCHANGED cvars

NextGpu ==
  \/ Call
  \/ Denominators
  \/ LogProbsLaunch
  \/ AlphasBetasLaunch
  \/ GradientsLaunch

SpecGpu == InitGpu /\ [][NextGpu]_vars

(***************************************************************************)
(* Properties of the dispatcher (SpecGpu).                                 *)
(***************************************************************************)

Finished == gPc \in {"returned", "exited"}

ErrLaunches == {i \in 1..Len(gLaunched) : gLaunched[i].error}

FirstErr == CHOOSE i \in ErrLaunches : \A j \in ErrLaunches : i <= j

\* The status code that belongs to a failing launch.
CodeOf(l) ==
  CASE l.kernel = "ReduceMax2D" -> "COMPUTE_DENOMINATOR_REDUCE_MAX_FAILED"
    [] l.kernel = "ReduceLogSumExpGivenMax2D" ->
         "COMPUTE_DENOMINATOR_REDUCE_SUM_FAILED"
    [] l.stage = "logProbs" -> "COMPUTE_LOG_PROBS_FAILED"
    [] l.stage = "alphasBetas" -> "COMPUTE_ALPHAS_BETAS_COSTS_FAILED"
    [] l.stage = "gradients" -> "COMPUTE_GRADIENTS_FAILED"

StageLaunches(s) == {i \in 1..Len(gLaunched) : gLaunched[i].stage = s}

\* C1: in every entry point, the first launch that reports an error ends the
\* call with that stage's status code and nothing is launched after it;
\* SUCCESS is returned only when no launch reported an error.
C1_FirstFailureIsReturned ==
  /\ ErrLaunches # {} =>
        /\ FirstErr = Len(gLaunched)
        /\ gPc = "returned"
        /\ gStatus = CodeOf(gLaunched[FirstErr])
  /\ gStatus = "SUCCESS" => ErrLaunches = {}

\* C2: every call ends by returning one of the enumerated status codes; no
\* entry point terminates the process.
C2_EveryCallReturnsAStatus ==
  /\ gPc # "exited"
  /\ gPc = "returned" => gStatus \in StatusCodes

WorkspaceRegions == {"denominators", "logProbs", "alphas", "betas"}

\* C3: in Compute and ComputeSparse a stage is launched only after every
\* earlier stage has been launched and reported success; each workspace
\* region is written by one stage only and read only by later stages.
C3_StrictStageOrder ==
  gEntry \in {"Compute", "ComputeSparse"} =>
    /\ \A i \in 1..Len(gLaunched) :
          /\ \A j \in 1..(i - 1) :
                /\ ~gLaunched[j].error
                /\ StageNo(gLaunched[j].stage) <= StageNo(gLaunched[i].stage)
          /\ \A n \in 1..(StageNo(gLaunched[i].stage) - 1) :
                \E j \in 1..(i - 1) : gLaunched[j].stage = Stages[n]
    /\ \A r \in WorkspaceRegions :
          /\ Cardinality({gLaunched[i].stage : i \in
                 {k \in 1..Len(gLaunched) : r \in gLaunched[k].writes}}) <= 1
          /\ \A i, j \in 1..Len(gLaunched) :
                (r \in gLaunched[i].reads /\ r \in gLaunched[j].writes
                   /\ gLaunched[i].stage # gLaunched[j].stage)
                => /\ j < i
                   /\ StageNo(gLaunched[j].stage) < StageNo(gLaunched[i].stage)

C3_Witness ==
  /\ gEntry = "ComputeSparse" /\ gPc = "returned" /\ gStatus = "SUCCESS"
  /\ Len(gLaunched) = 5
  /\ gLaunched[5].stage = "gradients"
  /\ "alphas" \in gLaunched[5].reads /\ "alphas" \in gLaunched[4].writes

\* Stages 1-3 were all launched and none of their launches reported an error.
Stages123Succeeded ==
  /\ \A s \in {"denominators", "logProbs", "alphasBetas"} :
        StageLaunches(s) # {}
  /\ \A i \in 1..Len(gLaunched) :
        gLaunched[i].stage # "gradients" => ~gLaunched[i].error

\* C4: with a null gradients pointer Compute and ComputeSparse launch no
\* gradient kernel and write no gradient memory, still produce the costs and
\* return SUCCESS when stages 1-3 succeed; with the pointer present the
\* gradient kernel is launched exactly once, after the alpha/beta stage.
C4_GradientStageOnlyWithPointer ==
  gEntry \in {"Compute", "ComputeSparse"} =>
    /\ ~gGradients =>
          /\ StageLaunches("gradients") = {}
          /\ \A i \in 1..Len(gLaunched) : "gradients" \notin gLaunched[i].writes
          /\ (Finished /\ Stages123Succeeded) =>
                /\ gPc = "returned" /\ gStatus = "SUCCESS"
                /\ \E i \in StageLaunches("alphasBetas") :
                      "costs" \in gLaunched[i].writes
    /\ (gGradients /\ Finished /\ Stages123Succeeded) =>
          /\ Cardinality(StageLaunches("gradients")) = 1
          /\ \A i \in StageLaunches("gradients") :
                \A j \in StageLaunches("alphasBetas") : j < i

C4_Witness ==
  /\ gEntry = "Compute" /\ ~gGradients
  /\ gPc = "returned" /\ gStatus = "SUCCESS"
  /\ Len(gLaunched) = 4

(***************************************************************************)
(* Properties of the CPU kernels (SpecCpu).                                *)
(***************************************************************************)

SrcLen(b) == srcLengths[b]          \* T_b
TgtLen(b) == tgtLengths[b] + 1      \* U_b + 1, the prepended blank included

LogProbsDone(b) ==
  \/ cPc \in {"alphasBetas", "costs", "gradients", "done"}
  \/ cPc = "logProbs" /\ cIdx > b

\* Task k of the alpha/beta stage has run: 2 * b is sample b's beta task and
\* 2 * b + 1 its alpha task.
TaskDone(k) ==
  \/ cPc \in {"costs", "gradients", "done"}
  \/ cPc = "alphasBetas" /\ cIdx > k

CostsDone == cPc \in {"gradients", "done"}

GradientsDone(b) ==
  \/ cPc = "done"
  \/ cPc = "gradients" /\ cIdx > b

\* C5 as stated: costs[b] = -(alpha(T_b - 1, U_b) + logProbs(T_b - 1, U_b).skip),
\* the forward score returned by the alpha task, in either mode.
C5_CostIsNegatedForwardScore ==
  CostsDone =>
    \A b \in Samples :
      /\ costs[b] = Neg(ForwardScore(alphas, b, SrcLen(b), TgtLen(b)))
      /\ costs[b] = Neg(scores[2 * b + 1])

\* C5 as amended: costs[b] is the negation of the backward score beta(0, 0),
\* which is what the beta task (even index 2 * b) returned, in either mode;
\* it is the negated forward score when the arithmetic is exact and the
\* lattice is unrestricted.
C5_CostIsNegatedBackwardScore ==
  CostsDone =>
    \A b \in Samples :
      /\ costs[b] = Neg(scores[2 * b])
      /\ costs[b] = Neg(betas[Idx2(b, 0, 0)])
      /\ ~IsUndef(costs[b])
      /\ (arith = "exact" /\ wpEnds = <<>>) =>
           costs[b] = Neg(ForwardScore(alphas, b, SrcLen(b), TgtLen(b)))

C5_Witness ==
  /\ CostsDone /\ arith = "rounded" /\ wpEnds # <<>>
  /\ \E b \in Samples :
       /\ SrcLen(b) = maxT /\ TgtLen(b) = maxU
       /\ costs[b] = Neg(betas[Idx2(b, 0, 0)])
       /\ costs[b] # Neg(scores[2 * b + 1])

\* C6: with exact arithmetic, for every sample (T >= 1, U >= 1) the forward
\* score returned by ComputeAlphaOneSequence equals the backward score
\* beta(0, 0) returned by ComputeBetaOneSequence.
C6_ForwardEqualsBackward ==
  (arith = "exact" /\ wpEnds = <<>>) =>
    \A b \in Samples :
      TaskDone(2 * b + 1) =>
        /\ scores[2 * b + 1] = scores[2 * b]
        /\ scores[2 * b + 1] =
             Plus(alphas[Idx2(b, SrcLen(b) - 1, TgtLen(b) - 1)],
                  logProbs[Idx2(b, SrcLen(b) - 1, TgtLen(b) - 1)].skip)
        /\ scores[2 * b] = betas[Idx2(b, 0, 0)]
        /\ ~IsUndef(scores[2 * b])

C6_Witness ==
  /\ arith = "exact" /\ wpEnds = <<>>
  /\ \E b \in Samples :
       /\ SrcLen(b) = maxT /\ TgtLen(b) = maxU
       /\ TaskDone(2 * b + 1)
       /\ scores[2 * b + 1] = scores[2 * b]
       /\ \E i, j \in Cells : logProbs[i].skip # logProbs[j].skip

\* The forward recurrence, read off the finished table.
AlphaRecurrence(b, t, u) ==
  IF t = 0 /\ u = 0 THEN Zero
  ELSE IF u = 0
    THEN Plus(alphas[Idx2(b, t - 1, 0)], logProbs[Idx2(b, t - 1, 0)].skip)
  ELSE IF t = 0
    THEN Plus(alphas[Idx2(b, 0, u - 1)], logProbs[Idx2(b, 0, u - 1)].emit)
  ELSE lse(Plus(alphas[Idx2(b, t - 1, u)], logProbs[Idx2(b, t - 1, u)].skip),
           Plus(alphas[Idx2(b, t, u - 1)], logProbs[Idx2(b, t, u - 1)].emit))

\* C7: after ComputeAlphaOneSequence every cell t < T, u < U holds the value
\* of the forward recurrence, no cell was computed from an unwritten one,
\* and the returned score is alpha(T-1, U-1) + skip(T-1, U-1).
C7_AlphaRecurrence ==
  wpEnds = <<>> =>
    \A b \in Samples :
      TaskDone(2 * b + 1) =>
        /\ \A t \in 0..(SrcLen(b) - 1), u \in 0..(TgtLen(b) - 1) :
             /\ alphas[Idx2(b, t, u)] = AlphaRecurrence(b, t, u)
             /\ ~IsUndef(alphas[Idx2(b, t, u)])
        /\ scores[2 * b + 1] =
             Plus(alphas[Idx2(b, SrcLen(b) - 1, TgtLen(b) - 1)],
                  logProbs[Idx2(b, SrcLen(b) - 1, TgtLen(b) - 1)].skip)

C7_Witness ==
  /\ wpEnds = <<>>
  /\ \E b \in Samples :
       /\ SrcLen(b) = maxT /\ TgtLen(b) = maxU /\ maxT > 1 /\ maxU > 1
       /\ TaskDone(2 * b + 1)
       /\ alphas[Idx2(b, maxT - 1, maxU - 1)] =
            AlphaRecurrence(b, maxT - 1, maxU - 1)
       /\ alphas[Idx2(b, maxT - 1, maxU - 1)] # alphas[Idx2(b, 0, maxU - 1)]

\* The backward recurrence, read off the finished table.
BetaRecurrence(b, t, u) ==
  LET T == SrcLen(b)
      U == TgtLen(b)
  IN IF t = T - 1 /\ u = U - 1 THEN logProbs[Idx2(b, t, u)].skip
     ELSE IF u = U - 1
       THEN Plus(betas[Idx2(b, t + 1, u)], logProbs[Idx2(b, t, u)].skip)
     ELSE IF t = T - 1
       THEN Plus(betas[Idx2(b, t, u + 1)], logProbs[Idx2(b, t, u)].emit)
     ELSE lse(Plus(betas[Idx2(b, t + 1, u)], logProbs[Idx2(b, t, u)].skip),
              Plus(betas[Idx2(b, t, u + 1)], logProbs[Idx2(b, t, u)].emit))

\* C8: after ComputeBetaOneSequence every cell t < T, u < U holds the value
\* of the backward recurrence, no cell was computed from an unwritten one,
\* and the returned score is beta(0, 0).
C8_BetaRecurrence ==
  wpEnds = <<>> =>
    \A b \in Samples :
      TaskDone(2 * b) =>
        /\ \A t \in 0..(SrcLen(b) - 1), u \in 0..(TgtLen(b) - 1) :
             /\ betas[Idx2(b, t, u)] = BetaRecurrence(b, t, u)
             /\ ~IsUndef(betas[Idx2(b, t, u)])
        /\ scores[2 * b] = betas[Idx2(b, 0, 0)]

C8_Witness ==
  /\ wpEnds = <<>>
  /\ \E b \in Samples :
       /\ SrcLen(b) = maxT /\ TgtLen(b) = maxU /\ maxT > 1 /\ maxU > 1
       /\ TaskDone(2 * b)
       /\ betas[Idx2(b, 0, 0)] = BetaRecurrence(b, 0, 0)
       /\ betas[Idx2(b, 0, 0)] # betas[Idx2(b, maxT - 1, 0)]

\* The cells of sample b's padded slice that lie in its lattice.
InRange(b, t, u) == t < SrcLen(b) /\ u < TgtLen(b)

\* logits is the caller's input until an in-place gradient stage writes it.
LogitsIntact == ~inplace \/ cPc \in {"denominators", "logProbs",
                                     "alphasBetas", "costs"}

\* C9: after the LogProbs stage, for every in-range cell skip is
\* logits(t, u, blank) - denom(t, u) and, for u < U_b, emit is
\* logits(t, u, targets[u]) - denom(t, u); the emit slot at u = U_b and every
\* cell outside the in-range region has not been written.
C9_LogProbs ==
  LogitsIntact =>
    \A b \in Samples :
      LogProbsDone(b) =>
        \A t \in 0..(maxT - 1), u \in 0..(maxU - 1) :
          LET lp == logProbs[Idx2(b, t, u)]
              den == denominators[Idx2(b, t, u)]
          IN IF InRange(b, t, u)
               THEN /\ lp.skip = Minus(logits[Idx3(b, t, u, blank)], den)
                    /\ ~IsUndef(lp.skip)
                    /\ IF u < tgtLengths[b]
                         THEN /\ lp.emit =
                                   Minus(logits[Idx3(b, t, u,
                                                     targets[TgtIdx(b, u)])],
                                         den)
                              /\ ~IsUndef(lp.emit)
                         ELSE lp.emit = Undef
               ELSE lp.skip = Undef /\ lp.emit = Undef

C9_Witness ==
  /\ cPc = "alphasBetas" /\ cIdx = 0
  /\ \E b \in Samples :
       /\ SrcLen(b) < maxT /\ TgtLen(b) = maxU /\ maxU > 1
       /\ targets[TgtIdx(b, 0)] # blank
       /\ logProbs[Idx2(b, 0, 0)].emit # logProbs[Idx2(b, 0, 0)].skip
       /\ logProbs[Idx2(b, 0, maxU - 1)].emit = Undef
       /\ logProbs[Idx2(b, maxT - 1, 0)].skip = Undef

\* The terms of the gradient table of one (t, u, d), with c and g as the
\* specification defines them: c = alpha + cost - denom, cost = -beta(0, 0),
\* g = logits + c.
TableG(b, t, u, d) ==
  Plus(logits[Idx3(b, t, u, d)],
       Minus(Plus(alphas[Idx2(b, t, u)], Neg(betas[Idx2(b, 0, 0)])),
             denominators[Idx2(b, t, u)]))

TableHere(b, t, u, d) == Exp(Plus(TableG(b, t, u, d), betas[Idx2(b, t, u)]))

Row1(b, t, u, d) ==
  d = blank /\ t = SrcLen(b) - 1 /\ u = TgtLen(b) - 1
Row2(b, t, u, d) == d = blank /\ t < SrcLen(b) - 1
Row3(b, t, u, d) == u < TgtLen(b) - 1 /\ d = targets[TgtIdx(b, u)]

Row1Value(b, t, u, d) == LinSub(TableHere(b, t, u, d), Exp(TableG(b, t, u, d)))
Row2Value(b, t, u, d) ==
  LinSub(TableHere(b, t, u, d),
         Exp(Plus(TableG(b, t, u, d), betas[Idx2(b, t + 1, u)])))
Row3Value(b, t, u, d) ==
  LinSub(TableHere(b, t, u, d),
         Exp(Plus(TableG(b, t, u, d), betas[Idx2(b, t, u + 1)])))

GradientCells(b) ==
  {c \in (0..(maxT - 1)) \X (0..(maxU - 1)) \X (0..(D - 1)) :
     InRange(b, c[1], c[2])}

RECURSIVE GradientSum(_, _, _, _)
GradientSum(b, t, u, d) ==
  IF d < 0 THEN LinZero
  ELSE LinAdd(GradientSum(b, t, u, d - 1), gradients[Idx3(b, t, u, d)])

\* C11: with the fused log-softmax, clamp disabled and exact arithmetic, the
\* gradients written for every in-range cell (t, u) of every sample sum to
\* zero over d, for every target sequence with labels in [0, D).
C11_GradientsSumToZero ==
  (arith = "exact" /\ clamp = LinZero /\ wpEnds = <<>>) =>
    \A b \in Samples :
      GradientsDone(b) =>
        \A t \in 0..(SrcLen(b) - 1), u \in 0..(TgtLen(b) - 1) :
          GradientSum(b, t, u, D - 1) = LinZero

(***************************************************************************)
(* The CPU pipeline with clamping and with gradients written in place      *)
(* (SpecGrad).                                                             *)
(***************************************************************************)

\* options.clamp_ when clamping is on.
ClampOn == <<1, 4>>

\* What a gradients buffer of its own holds before the call: nothing yet, or
\* the values an earlier use left there.
GradientPriors == {Undef, Stale}

InitBuffersGrad ==
  /\ denominators = [i \in Cells |-> Undef]
  /\ logProbs = [i \in Cells |-> [skip |-> Undef, emit |-> Undef]]
  /\ alphas = [i \in Cells |-> Undef]
  /\ betas = [i \in Cells |-> Undef]
  /\ scores = [t \in 0..(2 * B - 1) |-> Undef]
  /\ costs = [b \in Samples |-> Undef]
  /\ \E prior \in GradientPriors :
       gradients = IF inplace THEN logits
                   ELSE [i \in DOMAIN logits |-> prior]
  /\ cPc = "denominators"
  /\ cIdx = 0
  /\ cDone = {}

InitGrad ==
  /\ Init0Gpu
  /\ fusedLogSmax = TRUE
  /\ nHypos = 1
  /\ InitInputs({"exact"}, {LinZero, ClampOn}, {FALSE, TRUE}, {Unrestricted})
  /\ blank = 0
  /\ InitBuffersGrad

SpecGrad == InitGrad /\ [][NextCpu]_vars

\* |v| <= clamp for a value that has been written.
WithinClamp(v) ==
  /\ ~IsUndef(v)
  /\ ~RLess(clamp, v)
  /\ ~RLess(v, <<-clamp[1], clamp[2]>>)

\* C12 as stated: with clamp = c > 0, after the gradient stage every element
\* of the gradients tensor, in range or padding, in place or not, has
\* absolute value at most c.
C12_EveryGradientWithinClamp ==
  (RLess(LinZero, clamp) /\ cPc = "done") =>
    \A i \in DOMAIN gradients : WithinClamp(gradients[i])

\* C12 as amended: with clamp = c > 0, after the gradient stage every
\* in-range element has absolute value at most c, and so has every padding
\* element when gradients is the logits memory (it is zero); the padding of
\* a gradients buffer of its own is not bounded by the stage.
C12_InRangeGradientWithinClamp ==
  RLess(LinZero, clamp) =>
    \A b \in Samples :
      GradientsDone(b) =>
        \A t \in 0..(maxT - 1), u \in 0..(maxU - 1), d \in 0..(D - 1) :
          (InRange(b, t, u) \/ inplace) =>
            WithinClamp(gradients[Idx3(b, t, u, d)])

C12_Witness ==
  /\ cPc = "done" /\ clamp = ClampOn /\ ~inplace
  /\ \E b \in Samples, d \in 0..(D - 1) :
       /\ SrcLen(b) < maxT
       /\ gradients[Idx3(b, 0, 0, d)] = <<-clamp[1], clamp[2]>>
       /\ gradients[Idx3(b, maxT - 1, 0, d)] = Stale
  /\ \E i \in DOMAIN gradients : gradients[i] = clamp

\* The value of the gradient table for (t, u, d), its rows taken in order.
TableValue(b, t, u, d) ==
  IF Row1(b, t, u, d) THEN Row1Value(b, t, u, d)
  ELSE IF Row2(b, t, u, d) THEN Row2Value(b, t, u, d)
  ELSE IF Row3(b, t, u, d) THEN Row3Value(b, t, u, d)
  ELSE TableHere(b, t, u, d)

\* C13: the gradient stage writes the padding cells of a sample's gradients
\* (t >= T_b or u >= U_b + 1, any d) if and only if the gradients buffer is
\* the logits memory: then every padding cell is zero after the sample's
\* step and every in-range cell holds its gradient; otherwise every padding
\* cell keeps the contents it had before.  No other step writes gradients.
C13_PaddingZeroedIffInPlace ==
  [][IF cPc = "gradients"
       THEN \A b \in Samples :
              \A t \in 0..(maxT - 1), u \in 0..(maxU - 1), d \in 0..(D - 1) :
                LET i == Idx3(b, t, u, d)
                IN IF b # cIdx THEN gradients'[i] = gradients[i]
                   ELSE IF InRange(b, t, u)
                     THEN gradients'[i] = Clamp(TableValue(b, t, u, d))
                   ELSE IF inplace THEN gradients'[i] = LinZero
                   ELSE gradients'[i] = gradients[i]
       ELSE gradients' = gradients]_vars

C13_Witness ==
  /\ cPc = "done" /\ inplace
  /\ \E b \in Samples :
       /\ SrcLen(b) < maxT /\ TgtLen(b) < maxU
       /\ \A t \in 0..(maxT - 1), u \in 0..(maxU - 1), d \in 0..(D - 1) :
            IF InRange(b, t, u)
              THEN gradients[Idx3(b, t, u, d)] # LinZero
              ELSE gradients[Idx3(b, t, u, d)] = LinZero

\* C20 as stated: no step of a call writes to an input tensor; logits,
\* targets, srcLengths and tgtLengths are unchanged in every configuration,
\* a gradients pointer equal to the logits pointer included.
C20_InputsNeverWritten ==
  [][/\ logits' = logits
     /\ targets' = targets
     /\ srcLengths' = srcLengths
     /\ tgtLengths' = tgtLengths]_vars

\* C20 as amended: targets, srcLengths and tgtLengths are never written, and
\* logits is never written unless gradients is the logits memory; in that
\* case the gradient stage overwrites the logits of the sample it works on
\* with that sample's gradients and zeroed padding, and no other step
\* writes logits.
C20_InputsWrittenOnlyInPlace ==
  [][/\ targets' = targets
     /\ srcLengths' = srcLengths
     /\ tgtLengths' = tgtLengths
     /\ (~inplace \/ cPc # "gradients") => logits' = logits
     /\ (inplace /\ cPc = "gradients") =>
          /\ logits' = gradients'
          /\ \A b \in Samples :
               \A t \in 0..(maxT - 1), u \in 0..(maxU - 1), d \in 0..(D - 1) :
                 LET i == Idx3(b, t, u, d)
                 IN logits'[i] =
                      IF b # cIdx THEN logits[i]
                      ELSE IF InRange(b, t, u)
                        THEN Clamp(TableValue(b, t, u, d))
                      ELSE LinZero]_vars

C20_Witness ==
  /\ cPc = "done" /\ inplace /\ logits = gradients
  /\ \E b \in Samples :
       /\ SrcLen(b) < maxT
       /\ logits[Idx3(b, maxT - 1, 0, 0)] = LinZero
       /\ logits[Idx3(b, 0, 0, blank)] # LinZero

(***************************************************************************)
(* Properties of the restricted recurrences (SpecCpu, wpEnds present).     *)
(***************************************************************************)

\* Cell (t, u) can be reached from (0, 0) through accepted transitions.
RECURSIVE AlphaReachable(_, _, _)
AlphaReachable(b, t, u) ==
  LET T == SrcLen(b)
      U == TgtLen(b)
  IN \/ t = 0 /\ u = 0
     \/ t > 0 /\ alphaBlankTransition(b, T, U, t, u)
              /\ AlphaReachable(b, t - 1, u)
     \/ u > 0 /\ alphaEmitTransition(b, T, U, t, u)
              /\ AlphaReachable(b, t, u - 1)

\* The terminal cell can be reached from (t, u) through accepted transitions.
RECURSIVE BetaReachable(_, _, _)
BetaReachable(b, t, u) ==
  LET T == SrcLen(b)
      U == TgtLen(b)
  IN \/ t = T - 1 /\ u = U - 1
     \/ t < T - 1 /\ betaBlankTransition(b, T, U, t, u)
                  /\ BetaReachable(b, t + 1, u)
     \/ u < U - 1 /\ betaEmitTransition(b, T, U, t, u)
                  /\ BetaReachable(b, t, u + 1)

AlphaAllowed(b, t, u) ==
  InWindow(b, SrcLen(b), TgtLen(b), t, u) /\ AlphaReachable(b, t, u)

BetaAllowed(b, t, u) ==
  InWindow(b, SrcLen(b), TgtLen(b), t, u) /\ BetaReachable(b, t, u)

\* C14 as stated: in restricted mode every in-range cell outside the allowed
\* region holds -infinity in alpha and in beta after the restricted
\* routines, the start cell alpha(0, 0) and the terminal cell
\* beta(T-1, U-1) included when the check rejects them.
C14_OutsideRegionIsNegInf ==
  wpEnds # <<>> =>
    \A b \in Samples :
      \A t \in 0..(SrcLen(b) - 1), u \in 0..(TgtLen(b) - 1) :
        /\ (TaskDone(2 * b + 1) /\ ~AlphaAllowed(b, t, u)) =>
             alphas[Idx2(b, t, u)] = NegInf
        /\ (TaskDone(2 * b) /\ ~BetaAllowed(b, t, u)) =>
             betas[Idx2(b, t, u)] = NegInf

\* What the routines do guarantee: the same for every in-range cell other
\* than the start cell of alpha and the terminal cell of beta; alpha(0, 0)
\* is 0 and beta(T-1, U-1) is skip(T-1, U-1) whatever the check says of them.
OutsideRegionIsNegInfButEnds ==
  wpEnds # <<>> =>
    \A b \in Samples :
      \A t \in 0..(SrcLen(b) - 1), u \in 0..(TgtLen(b) - 1) :
        /\ TaskDone(2 * b + 1) =>
             IF t = 0 /\ u = 0 THEN alphas[Idx2(b, t, u)] = Zero
             ELSE ~AlphaAllowed(b, t, u) => alphas[Idx2(b, t, u)] = NegInf
        /\ TaskDone(2 * b) =>
             IF t = SrcLen(b) - 1 /\ u = TgtLen(b) - 1
               THEN betas[Idx2(b, t, u)] = logProbs[Idx2(b, t, u)].skip
               ELSE ~BetaAllowed(b, t, u) => betas[Idx2(b, t, u)] = NegInf

\* The window of the last row lies beyond the sample's last frame, so the
\* check rejects the terminal cell, which beta nevertheless holds.
TerminalCellRejected ==
  /\ wpEnds # <<>>
  /\ \E b \in Samples :
       /\ TaskDone(2 * b + 1)
       /\ TgtLen(b) = maxU /\ maxU > 1
       /\ ~InWindow(b, SrcLen(b), TgtLen(b), SrcLen(b) - 1, TgtLen(b) - 1)
       /\ betas[Idx2(b, SrcLen(b) - 1, TgtLen(b) - 1)] # NegInf
       /\ betas[Idx2(b, 0, 0)] = NegInf
       /\ alphas[Idx2(b, 0, maxU - 1)] = NegInf
       /\ alphas[Idx2(b, 0, 0)] = Zero

\* The restriction of sample b excludes nothing: every row's window is the
\* whole of [0, T - 1] and every transition between two cells of the
\* lattice is accepted.
ExcludesNothing(b) ==
  LET T == SrcLen(b)
      U == TgtLen(b)
  IN /\ wpEnds # <<>>
     /\ \A u \in 0..(U - 1) :
          validTimeRanges(b, T, U, u) = [start |-> 0, end |-> T - 1]
     /\ \A t \in 0..(T - 1), u \in 0..(U - 1) :
          /\ t > 0 => alphaBlankTransition(b, T, U, t, u)
          /\ u > 0 => alphaEmitTransition(b, T, U, t, u)
          /\ t < T - 1 => betaBlankTransition(b, T, U, t, u)
          /\ u < U - 1 => betaEmitTransition(b, T, U, t, u)

NeverWritten == [i \in Cells |-> Undef]

\* C15: when the restriction excludes nothing, the restricted routines leave
\* in every in-range cell the alpha and beta the unrestricted routines
\* compute from the same log-probabilities, and return the same forward and
\* backward score.
C15_RestrictedEqualsUnrestricted ==
  \A b \in Samples :
    ExcludesNothing(b) =>
      LET T == SrcLen(b)
          U == TgtLen(b)
      IN /\ TaskDone(2 * b + 1) =>
              LET r == ComputeAlphaOneSequence(NeverWritten, b, T, U)
              IN /\ \A t \in 0..(T - 1), u \in 0..(U - 1) :
                      alphas[Idx2(b, t, u)] = r.buf[Idx2(b, t, u)]
                 /\ scores[2 * b + 1] = r.score
         /\ TaskDone(2 * b) =>
              LET r == ComputeBetaOneSequence(NeverWritten, b, T, U)
              IN /\ \A t \in 0..(T - 1), u \in 0..(U - 1) :
                      betas[Idx2(b, t, u)] = r.buf[Idx2(b, t, u)]
                 /\ scores[2 * b] = r.score

C15_Witness ==
  \E b \in Samples :
    /\ ExcludesNothing(b) /\ lBuffer > 0
    /\ SrcLen(b) = maxT /\ TgtLen(b) = maxU /\ maxT > 1 /\ maxU > 1
    /\ TaskDone(2 * b + 1)
    /\ arith = "rounded"
    /\ alphas[Idx2(b, maxT - 1, maxU - 1)] # NegInf
    /\ alphas[Idx2(b, maxT - 1, maxU - 1)] # alphas[Idx2(b, 0, maxU - 1)]
    /\ scores[2 * b + 1] # scores[2 * b]

(***************************************************************************)
(* The CPU pipeline with the fused log-softmax switched on or off          *)
(* (SpecFused).                                                            *)
(***************************************************************************)

InitFused ==
  /\ Init0Gpu
  /\ fusedLogSmax \in BOOLEAN
  /\ nHypos = 1
  /\ InitInputs({"exact", "rounded"}, {LinZero}, {FALSE}, {Unrestricted})
  /\ InitBuffers

SpecFused == InitFused /\ [][NextCpu]_vars

\* C16: when options.fusedLogSmax_ is false the LogProbs stage treats the
\* denominator as zero: for every in-range cell skip = logits(t, u, blank)
\* and, for u < U_b, emit = logits(t, u, targets[u]).
C16_UnfusedLogProbsAreLogits ==
  (~fusedLogSmax /\ LogitsIntact) =>
    \A b \in Samples :
      LogProbsDone(b) =>
        \A t \in 0..(SrcLen(b) - 1), u \in 0..(TgtLen(b) - 1) :
          /\ logProbs[Idx2(b, t, u)].skip = logits[Idx3(b, t, u, blank)]
          /\ u < tgtLengths[b] =>
               logProbs[Idx2(b, t, u)].emit =
                 logits[Idx3(b, t, u, targets[TgtIdx(b, u)])]

\* On the accelerator the option is honoured when the log-probs kernel of
\* every entry point is handed its value.
FusedOptionReachesKernel ==
  \A i \in StageLaunches("logProbs") :
    gLaunched[i].fused = (IF fusedLogSmax THEN "true" ELSE "false")

(***************************************************************************)
(* The CPU pipeline called with several hypotheses per utterance           *)
(* (SpecHypos): the caller's workspace and outputs hold B * H effective    *)
(* samples.  The CPU kernels read the inputs of the first B samples only,  *)
(* so the inputs of the others are left out of the state.                  *)
(***************************************************************************)

MaxHypos == 2

EffectiveSamples == 0..(B * nHypos - 1)
EffectiveCells == 0..(B * nHypos * maxT * maxU - 1)

InitBuffersHypos ==
  /\ denominators = [i \in EffectiveCells |-> Undef]
  /\ logProbs = [i \in EffectiveCells |-> [skip |-> Undef, emit |-> Undef]]
  /\ alphas = [i \in EffectiveCells |-> Undef]
  /\ betas = [i \in EffectiveCells |-> Undef]
  /\ scores = [t \in 0..(2 * B - 1) |-> Undef]
  /\ costs = [b \in EffectiveSamples |-> Undef]
  /\ gradients = [i \in DOMAIN logits |-> Undef]
  /\ cPc = "denominators"
  /\ cIdx = 0
  /\ cDone = {}

InitHypos ==
  /\ Init0Gpu
  /\ fusedLogSmax = TRUE
  /\ nHypos \in 1..MaxHypos
  /\ InitInputs({"exact"}, {LinZero}, {FALSE}, {Unrestricted})
  /\ InitBuffersHypos

SpecHypos == InitHypos /\ [][NextCpu]_vars

\* The cells of effective sample s in a [B * H, maxT, maxU] buffer.
SliceOf(s) == {Idx2(s, t, u) : t \in 0..(maxT - 1), u \in 0..(maxU - 1)}

\* Effective sample s has its alpha, beta and cost computed.
SampleComputed(s) ==
  /\ ~IsUndef(costs[s])
  /\ \E i \in SliceOf(s) : ~IsUndef(alphas[i])
  /\ \E i \in SliceOf(s) : ~IsUndef(betas[i])

\* C17: the alpha/beta stage runs 2 * B * H tasks, so that once it is over
\* every one of the B * H effective samples has its alpha, beta and cost.
C17_EveryEffectiveSampleComputed ==
  CostsDone =>
    /\ DOMAIN scores = 0..(2 * B * nHypos - 1)
    /\ \A s \in EffectiveSamples : SampleComputed(s)

\* What the stage does: 2 * B tasks, for the first B samples.
FirstBatchComputed ==
  CostsDone =>
    /\ DOMAIN scores = 0..(2 * B - 1)
    /\ \A s \in EffectiveSamples : SampleComputed(s) <=> s \in Samples

\* Task k works on sample k \div 2: an odd k writes cells of that sample's
\* alpha slice only, an even k cells of its beta slice only.
TaskWritesOwnSlice ==
  [][cPc = "alphasBetas" =>
       /\ \A i \in DOMAIN alphas :
            alphas'[i] # alphas[i] =>
              cIdx % 2 = 1 /\ i \in SliceOf(cIdx \div 2)
       /\ \A i \in DOMAIN betas :
            betas'[i] # betas[i] =>
              cIdx % 2 = 0 /\ i \in SliceOf(cIdx \div 2)]_vars

(***************************************************************************)
(* The CPU pipeline with the loops over the samples run as parallel fors   *)
(* (SpecOrder): the iterations of a stage are taken in any order, cDone    *)
(* holding those that are over.                                            *)
(***************************************************************************)

Tasks == 0..(2 * B - 1)

\* The stage is over once every iteration has run.
StageAdvance(done, all) ==
  IF done = all
    THEN cDone' = {} /\ cPc' = NextStage(cPc)
    ELSE cDone' = done /\ cPc' = cPc

\* ComputeLogProbs: some iteration b that has not run yet.
LogProbsAnyOrder ==
  /\ cPc = "logProbs"
  /\ \E b \in Samples \ cDone :
       /\ logProbs' = ComputeLogProbsOneSequence(
                        logProbs, b, srcLengths[b], tgtLengths[b] + 1)
       /\ StageAdvance(cDone \cup {b}, Samples)
  /\ UNCHANGED <<inputs, logits, denominators, alphas, betas, scores, costs,
                 gradients, cIdx>>

\* ComputeAlphasBetas: some iteration t that has not run yet.
AlphaBetaAnyOrder ==
  /\ cPc = "alphasBetas"
  /\ \E t \in Tasks \ cDone :
       LET i == t \div 2
           o == ComputeAlphaOrBetaOneSequence(
                  t, i, srcLengths[i], tgtLengths[i] + 1)
       IN /\ scores' = [scores EXCEPT ![t] = o.r.score]
          /\ alphas' = IF o.kind = "alpha" THEN o.r.buf ELSE alphas
          /\ betas' = IF o.kind = "beta" THEN o.r.buf ELSE betas
          /\ StageAdvance(cDone \cup {t}, Tasks)
  /\ UNCHANGED <<inputs, logits, denominators, logProbs, costs, gradients,
                 cIdx>>

\* ComputeGradients: some iteration b that has not run yet.
GradientsAnyOrder ==
  /\ cPc = "gradients"
  /\ \E b \in Samples \ cDone :
       /\ LET m == ComputeGradientsOneSequence(
                     [lg |-> logits, gr |-> gradients],
                     b, srcLengths[b], tgtLengths[b] + 1)
          IN logits' = m.lg /\ gradients' = m.gr
       /\ StageAdvance(cDone \cup {b}, Samples)
  /\ UNCHANGED <<inputs, denominators, logProbs, alphas, betas, scores, costs,
                 cIdx>>

InitOrder ==
  /\ Init0Gpu
  /\ fusedLogSmax = TRUE
  /\ nHypos = 1
  /\ InitInputs({"exact"}, {LinZero}, {FALSE, TRUE},
                {Unrestricted, [first |-> 0, l |-> 0, r |-> 0]})
  /\ blank = 0
  /\ targets[0] = 1
  /\ InitBuffers

NextOrder ==
  \/ CpuDenominators /\ UNCHANGED <<gvars, cDone>>
  \/ LogProbsAnyOrder /\ UNCHANGED gvars
  \/ AlphaBetaAnyOrder /\ UNCHANGED gvars
  \/ ComputeCosts /\ UNCHANGED <<gvars, cDone>>
  \/ GradientsAnyOrder /\ UNCHANGED gvars

SpecOrder == InitOrder /\ [][NextOrder]_vars

\* The sequential loops of the three stages, from a given state of the
\* buffers.
RECURSIVE SeqLogProbs(_, _)
SeqLogProbs(lp, b) ==
  IF b >= B THEN lp
  ELSE SeqLogProbs(ComputeLogProbsOneSequence(
                     lp, b, srcLengths[b], tgtLengths[b] + 1), b + 1)

RECURSIVE SeqAlphasBetas(_, _)
SeqAlphasBetas(st, t) ==
  IF t >= 2 * B THEN st
  ELSE LET i == t \div 2
           T == srcLengths[i]
           U == tgtLengths[i] + 1
       IN IF t % 2 = 1
            THEN LET r == AlphaTask(st.al, i, T, U)
                 IN SeqAlphasBetas([al |-> r.buf, be |-> st.be,
                                    sc |-> [st.sc EXCEPT ![t] = r.score]],
                                   t + 1)
            ELSE LET r == BetaTask(st.be, i, T, U)
                 IN SeqAlphasBetas([al |-> st.al, be |-> r.buf,
                                    sc |-> [st.sc EXCEPT ![t] = r.score]],
                                   t + 1)

RECURSIVE SeqGradients(_, _)
SeqGradients(mem, b) ==
  IF b >= B THEN mem
  ELSE SeqGradients(ComputeGradientsOneSequence(
                      mem, b, srcLengths[b], tgtLengths[b] + 1), b + 1)

\* A buffer as it is before anything is written to it.
Blank(buf) == [i \in DOMAIN buf |-> Undef]
BlankLogProbs == [i \in DOMAIN logProbs |-> [skip |-> Undef, emit |-> Undef]]

\* Every stage that is over has left what its sequential loop leaves.  (A
\* gradient stage that ran in place has overwritten the logits it started
\* from; it is covered by StepWritesOwnSlice and TaskReadsOwnSlice.)
SameAsSequentialLoop ==
  /\ (cPc \notin {"denominators", "logProbs"} /\ LogitsIntact) =>
       logProbs = SeqLogProbs(BlankLogProbs, 0)
  /\ cPc \in {"costs", "gradients", "done"} =>
       LET st == SeqAlphasBetas([al |-> Blank(alphas), be |-> Blank(betas),
                                 sc |-> Blank(scores)], 0)
       IN alphas = st.al /\ betas = st.be /\ scores = st.sc
  /\ CostsDone => costs = [b \in Samples |-> CostOfSample(scores, b)]
  /\ (cPc = "done" /\ ~inplace) =>
       gradients = SeqGradients([lg |-> logits, gr |-> Blank(gradients)], 0).gr

\* The cells of sample b in a [B, maxT, maxU, D] buffer.
Slice3(b) ==
  {Idx3(b, t, u, d) : t \in 0..(maxT - 1), u \in 0..(maxU - 1),
                      d \in 0..(D - 1)}

\* The iteration a step of a stage has run.
Ran(all) == IF cDone' = {} THEN all \ cDone ELSE cDone' \ cDone

\* No task writes a location another task of its stage reads or writes: a
\* step changes cells of its own sample's slice only.
StepWritesOwnSlice ==
  /\ cPc = "logProbs" =>
       \A b \in Ran(Samples), i \in DOMAIN logProbs :
         logProbs'[i] # logProbs[i] => i \in SliceOf(b)
  /\ cPc = "alphasBetas" =>
       \A t \in Ran(Tasks) :
         /\ \A i \in DOMAIN alphas :
              alphas'[i] # alphas[i] => t % 2 = 1 /\ i \in SliceOf(t \div 2)
         /\ \A i \in DOMAIN betas :
              betas'[i] # betas[i] => t % 2 = 0 /\ i \in SliceOf(t \div 2)
         /\ \A j \in DOMAIN scores : scores'[j] # scores[j] => j = t
  /\ cPc = "gradients" =>
       \A b \in Ran(Samples), i \in DOMAIN gradients :
         /\ gradients'[i] # gradients[i] => i \in Slice3(b)
         /\ logits'[i] # logits[i] => i \in Slice3(b)

\* buf with every cell outside keep replaced by a value never written.
Poison(buf, keep) ==
  [i \in DOMAIN buf |-> IF i \in keep THEN buf[i] ELSE Undef]

\* No task reads a location another task of its stage writes: what a task
\* that has not run yet would write does not depend on the cells of the
\* other samples' slices.
TaskReadsOwnSlice ==
  /\ cPc = "alphasBetas" =>
       \A t \in Tasks \ cDone :
         LET b == t \div 2
             T == srcLengths[b]
             U == tgtLengths[b] + 1
             here == IF t % 2 = 1 THEN AlphaTask(alphas, b, T, U)
                     ELSE BetaTask(betas, b, T, U)
             alone == IF t % 2 = 1
                        THEN AlphaTask(Poison(alphas, SliceOf(b)), b, T, U)
                        ELSE BetaTask(Poison(betas, SliceOf(b)), b, T, U)
         IN /\ here.score = alone.score
            /\ \A i \in SliceOf(b) : here.buf[i] = alone.buf[i]
  /\ cPc = "gradients" =>
       \A b \in Samples \ cDone :
         LET T == srcLengths[b]
             U == tgtLengths[b] + 1
             here == ComputeGradientsOneSequence(
                       [lg |-> logits, gr |-> gradients], b, T, U)
             alone == ComputeGradientsOneSequence(
                        [lg |-> Poison(logits, Slice3(b)),
                         gr |-> Poison(gradients, Slice3(b))], b, T, U)
         IN \A i \in Slice3(b) :
              here.gr[i] = alone.gr[i] /\ here.lg[i] = alone.lg[i]

DiagEntries == {"alphas", "betas"}

InitDiag ==
  /\ Init0Gpu
  /\ fusedLogSmax = TRUE
  /\ nHypos = 1
  /\ InitInputs({"exact"}, {LinZero}, {FALSE}, {Unrestricted} \cup Windows)
  /\ denominators = LogSumExp2D(B * maxT * maxU, logits,
                                [i \in Cells |-> Undef])
  /\ logProbs = SeqLogProbs([i \in Cells |-> [skip |-> Undef, emit |-> Undef]],
                            0)
  /\ alphas = [i \in Cells |-> Undef]
  /\ betas = [i \in Cells |-> Undef]
  /\ scores = [t \in Tasks |-> Undef]
  /\ costs = [b \in Samples |-> Undef]
  /\ gradients = [i \in DOMAIN logits |-> Undef]
  /\ cPc \in DiagEntries
  /\ cIdx = 0
  /\ cDone = {}

\* The loop over the samples of ComputeAlphas and ComputeBetas.
DiagAdvance ==
  IF cIdx + 1 < B
    THEN cIdx' = cIdx + 1 /\ cPc' = cPc
    ELSE cIdx' = 0 /\ cPc' = "done"

\* ComputeAlphas: iteration i = cIdx; the score the routine returns is
\* dropped.
CpuComputeAlphas ==
  /\ cPc = "alphas"
  /\ alphas' = AlphaTask(alphas, cIdx, srcLengths[cIdx],
                         tgtLengths[cIdx] + 1).buf
  /\ DiagAdvance
  /\ UNCHANGED <<inputs, logits, denominators, logProbs, betas, scores, costs,
                 gradients, cDone>>

\* ComputeBetas: iteration i = cIdx; the score the routine returns is
\* dropped, and nothing is stored through the costs pointer.
CpuComputeBetas ==
  /\ cPc = "betas"
  /\ betas' = BetaTask(betas, cIdx, srcLengths[cIdx],
                       tgtLengths[cIdx] + 1).buf
  /\ DiagAdvance
  /\ UNCHANGED <<inputs, logits, denominators, logProbs, alphas, scores, costs,
                 gradients, cDone>>

NextDiag ==
  \/ CpuComputeAlphas /\ UNCHANGED gvars
  \/ CpuComputeBetas /\ UNCHANGED gvars

SpecDiag == InitDiag /\ [][NextDiag]_vars

\* ComputeAlphas writes alphas for every sample and nothing else.
AlphasVariantStep ==
  cPc = "alphas" =>
    /\ betas' = betas /\ costs' = costs /\ gradients' = gradients
    /\ cPc' = "done" =>
         \A b \in Samples :
           alphas'[Idx2(b, SrcLen(b) - 1, TgtLen(b) - 1)] =
             AlphaTask(alphas', b, SrcLen(b), TgtLen(b)).buf[
               Idx2(b, SrcLen(b) - 1, TgtLen(b) - 1)]
           /\ ~IsUndef(alphas'[Idx2(b, 0, 0)])

\* ComputeBetas writes betas for every sample, and neither alphas nor
\* gradients.
BetasVariantStep ==
  cPc = "betas" =>
    /\ alphas' = alphas /\ gradients' = gradients
    /\ cPc' = "done" =>
         \A b \in Samples :
           /\ ~IsUndef(betas'[Idx2(b, SrcLen(b) - 1, TgtLen(b) - 1)])
           /\ betas'[Idx2(b, 0, 0)] =
                BetaTask(betas', b, SrcLen(b), TgtLen(b)).buf[Idx2(b, 0, 0)]

\* ComputeBetas has set costs[b] = -beta_b(0, 0) when it returns.
BetasVariantSetsCosts ==
  (cPc = "betas" /\ cPc' = "done") =>
    \A b \in Samples : costs'[b] = Neg(betas'[Idx2(b, 0, 0)])

\* C19: ComputeAlphas writes alphas for every sample and never writes betas,
\* costs or gradients; ComputeBetas writes betas for every sample, sets
\* costs[b] = -beta_b(0, 0) for every sample b and never writes alphas or
\* gradients.
C19_DiagnosticVariants ==
  [][AlphasVariantStep /\ BetasVariantStep /\ BetasVariantSetsCosts]_vars

\* What holds of the two entry points: everything but the costs.
DiagnosticVariantsButCosts ==
  [][AlphasVariantStep /\ BetasVariantStep]_vars

\* ComputeBetas leaves the costs as the caller passed them.
BetasVariantLeavesCosts == [][cPc = "betas" => costs' = costs]_vars

(***************************************************************************)
(* The CPU pipeline run on buffers whose padding cells and whose workspace *)
(* hold anything (SpecPad).                                                *)
(***************************************************************************)

WorkspacePriors == {Undef, Stale}

InitBuffersPad ==
  /\ \E prior \in WorkspacePriors :
       /\ denominators = [i \in Cells |-> prior]
       /\ logProbs = [i \in Cells |-> [skip |-> prior, emit |-> prior]]
       /\ alphas = [i \in Cells |-> prior]
       /\ betas = [i \in Cells |-> prior]
       /\ gradients = [i \in DOMAIN logits |-> prior]
  /\ scores = [t \in Tasks |-> Undef]
  /\ costs = [b \in Samples |-> Undef]
  /\ cPc = "denominators"
  /\ cIdx = 0
  /\ cDone = {}

InitPad ==
  /\ Init0Gpu
  /\ fusedLogSmax = TRUE
  /\ nHypos = 1
  /\ InitInputsPadded({"exact"}, {LinZero}, {FALSE},
                      {Unrestricted, [first |-> 0, l |-> 0, r |-> 0]},
                      PadKinds)
  /\ blank = 0
  /\ InitBuffersPad

SpecPad == InitPad /\ [][NextCpu]_vars

\* Some cell of the sample's padded slice lies outside its lattice.
HasPadding(b) == SrcLen(b) < maxT \/ TgtLen(b) < maxU

\* Nothing computed for the lattice of sample b carries a value that was
\* spoilt by a padding cell or by what the workspace held before the call.
Unspoilt(b) ==
  /\ LogProbsDone(b) =>
       \A t \in 0..(SrcLen(b) - 1), u \in 0..(TgtLen(b) - 1) :
         /\ ~IsUndef(denominators[Idx2(b, t, u)])
         /\ ~IsUndef(logProbs[Idx2(b, t, u)].skip)
         /\ u < tgtLengths[b] => ~IsUndef(logProbs[Idx2(b, t, u)].emit)
  /\ TaskDone(2 * b + 1) =>
       /\ ~IsUndef(scores[2 * b + 1])
       /\ \A t \in 0..(SrcLen(b) - 1), u \in 0..(TgtLen(b) - 1) :
            ~IsUndef(alphas[Idx2(b, t, u)])
  /\ TaskDone(2 * b) =>
       /\ ~IsUndef(scores[2 * b])
       /\ \A t \in 0..(SrcLen(b) - 1), u \in 0..(TgtLen(b) - 1) :
            ~IsUndef(betas[Idx2(b, t, u)])
  /\ CostsDone => ~IsUndef(costs[b])
  /\ GradientsDone(b) =>
       \A c \in GradientCells(b) : ~IsUndef(gradients[Idx3(b, c[1], c[2], c[3])])

\* The values of sample b's lattice are those its in-range inputs define:
\* logProbs from the in-range logits and targets, alpha and beta from the
\* in-range logProbs by the recurrences, the cost from beta(0, 0) and the
\* gradients from the table.
DefinedByLattice(b) ==
  /\ LogProbsDone(b) =>
       \A t \in 0..(SrcLen(b) - 1), u \in 0..(TgtLen(b) - 1) :
         LET lp == logProbs[Idx2(b, t, u)]
             den == denominators[Idx2(b, t, u)]
         IN /\ den = LogSumExp2D(Idx2(b, t, u) + 1, logits,
                                 denominators)[Idx2(b, t, u)]
            /\ lp.skip = Minus(logits[Idx3(b, t, u, blank)], den)
            /\ u < tgtLengths[b] =>
                 lp.emit = Minus(logits[Idx3(b, t, u, targets[TgtIdx(b, u)])],
                                 den)
  /\ (wpEnds = <<>> /\ TaskDone(2 * b + 1)) =>
       \A t \in 0..(SrcLen(b) - 1), u \in 0..(TgtLen(b) - 1) :
         alphas[Idx2(b, t, u)] = AlphaRecurrence(b, t, u)
  /\ (wpEnds = <<>> /\ TaskDone(2 * b)) =>
       \A t \in 0..(SrcLen(b) - 1), u \in 0..(TgtLen(b) - 1) :
         betas[Idx2(b, t, u)] = BetaRecurrence(b, t, u)
  /\ CostsDone => costs[b] = Neg(betas[Idx2(b, 0, 0)])
  /\ GradientsDone(b) =>
       \A c \in GradientCells(b) :
         LET t == c[1]
             u == c[2]
             d == c[3]
         IN gradients[Idx3(b, t, u, d)] =
              IF Row1(b, t, u, d) THEN Row1Value(b, t, u, d)
              ELSE IF Row2(b, t, u, d) THEN Row2Value(b, t, u, d)
              ELSE IF Row3(b, t, u, d) THEN Row3Value(b, t, u, d)
              ELSE TableHere(b, t, u, d)

FreeWindows ==
  {[first |-> 0, l |-> buf, r |-> buf, ends |-> e] :
     buf \in {0, MaxBuffer}, e \in [0..(maxU - 1) -> 0..(maxT - 1)]}

InitWindow ==
  /\ Init0Gpu
  /\ fusedLogSmax = TRUE
  /\ nHypos = 1
  /\ InitInputs({"exact"}, {LinZero}, {FALSE}, FreeWindows)
  /\ blank = 0
  /\ targets[0] = 1
  /\ InitBuffers

SpecWindow == InitWindow /\ [][NextCpu]_vars

\* The boundary fills of alpha: once alphaBlankTransition(t0, 0) is rejected
\* the column u = 0 is -infinity from t0 on, once alphaEmitTransition(0, u0)
\* is rejected the row t = 0 is -infinity from u0 on.
AlphaFillsStayStopped(b) ==
  LET T == SrcLen(b)
      U == TgtLen(b)
  IN /\ \A t0 \in 1..(T - 1) :
          ~alphaBlankTransition(b, T, U, t0, 0) =>
            \A t \in t0..(T - 1) : alphas[Idx2(b, t, 0)] = NegInf
     /\ \A u0 \in 1..(U - 1) :
          ~alphaEmitTransition(b, T, U, 0, u0) =>
            \A u \in u0..(U - 1) : alphas[Idx2(b, 0, u)] = NegInf

\* The boundary fills of beta, along u = U - 1 and along t = T - 1.
BetaFillsStayStopped(b) ==
  LET T == SrcLen(b)
      U == TgtLen(b)
  IN /\ \A t0 \in 0..(T - 2) :
          ~betaBlankTransition(b, T, U, t0, U - 1) =>
            \A t \in 0..t0 : betas[Idx2(b, t, U - 1)] = NegInf
     /\ \A u0 \in 0..(U - 2) :
          ~betaEmitTransition(b, T, U, T - 1, u0) =>
            \A u \in 0..u0 : betas[Idx2(b, T - 1, u)] = NegInf

SeparateBufferValue(b, t, u, d) ==
  Clamp(GradientValue(logits, b, SrcLen(b), TgtLen(b), t, u, d,
                      Neg(betas[Idx2(b, 0, 0)])))

\* C23: computing gradients in place is equivalent to computing them into a
\* separate buffer: for every sample and every in-range (t, u, d) the
\* iteration writes the value it writes with a distinct gradients buffer,
\* whether or not gradients is the logits memory, with and without clamp;
\* the logits of the samples still to come are as the caller passed them.
C23_InPlaceEqualsSeparate ==
  [][cPc = "gradients" =>
       /\ \A c \in GradientCells(cIdx) :
            gradients'[Idx3(cIdx, c[1], c[2], c[3])] =
              SeparateBufferValue(cIdx, c[1], c[2], c[3])
       /\ \A i \in DOMAIN logits :
            logits'[i] # logits[i] => inplace /\ i \in Slice3(cIdx)]_vars

\* A full-length sample had its gradients computed in place with the clamp
\* on: its logits now hold them, not all alike and one of them clamped.
C23_Witness ==
  /\ inplace
  /\ clamp = ClampOn
  /\ \E b \in Samples :
       /\ GradientsDone(b)
       /\ SrcLen(b) = maxT /\ TgtLen(b) = maxU
       /\ \A c \in GradientCells(b) :
            logits[Idx3(b, c[1], c[2], c[3])] =
              gradients[Idx3(b, c[1], c[2], c[3])]
       /\ \E c1, c2 \in GradientCells(b) :
            /\ gradients[Idx3(b, c1[1], c1[2], c1[3])] #
                 gradients[Idx3(b, c2[1], c2[2], c2[3])]
            /\ gradients[Idx3(b, c1[1], c1[2], c1[3])] = ClampOn

(***************************************************************************)
(* The indices the CPU routines hand to their TensorViews, and the CPU     *)
(* pipeline on batches that may hold samples of source length 0            *)
(* (SpecBounds).  An access outside the view is undefined behaviour: the   *)
(* process is killed, or it goes on with whatever the access gave.         *)
(***************************************************************************)

\* {t, u} is inside a {maxT, maxU} view.
InView(a) == 0 <= a[1] /\ a[1] < maxT /\ 0 <= a[2] /\ a[2] < maxU

\* ComputeAlphaOneSequence: every {t, u} of alpha(...) and logProbs(...).
AlphaAccesses(T, U) ==
  {<<0, 0>>, <<T - 1, U - 1>>}
    \cup UNION {{<<t, 0>>, <<t - 1, 0>>} : t \in 1..(T - 1)}
    \cup UNION {{<<0, u>>, <<0, u - 1>>} : u \in 1..(U - 1)}
    \cup UNION {{<<t, u>>, <<t - 1, u>>, <<t, u - 1>>} :
                  t \in 1..(T - 1), u \in 1..(U - 1)}

\* ComputeBetaOneSequence: every {t, u} of beta(...) and logProbs(...).
BetaAccesses(T, U) ==
  {<<T - 1, U - 1>>, <<0, 0>>}
    \cup UNION {{<<t, U - 1>>, <<t + 1, U - 1>>} : t \in 0..(T - 2)}
    \cup UNION {{<<T - 1, u>>, <<T - 1, u + 1>>} : u \in 0..(U - 2)}
    \cup UNION {{<<t, u>>, <<t + 1, u>>, <<t, u + 1>>} :
                  t \in 0..(T - 2), u \in 0..(U - 2)}

\* The cells of the window of row u.
WindowCells(b, T, U, u) ==
  {<<t, u>> : t \in validTimeRanges(b, T, U, u).start ..
                    validTimeRanges(b, T, U, u).end}

\* ComputeAlphaOneSequenceRestricted: the fill, alpha({0, 0}), the two
\* boundary fills up to their break, the interior loop, the score.
AlphaAccessesRestricted(b, T, U) ==
  {<<t, u>> : t \in 0..(T - 1), u \in 0..(U - 1)}
    \cup {<<0, 0>>, <<T - 1, U - 1>>}
    \cup UNION {{<<t, 0>>, <<t - 1, 0>>} :
                  t \in {t1 \in 1..(T - 1) :
                           \A t0 \in 1..t1 :
                             alphaBlankTransition(b, T, U, t0, 0)}}
    \cup UNION {{<<0, u>>, <<0, u - 1>>} :
                  u \in {u1 \in 1..(U - 1) :
                           \A u0 \in 1..u1 :
                             alphaEmitTransition(b, T, U, 0, u0)}}
    \cup UNION {UNION {(IF alphaBlankTransition(b, T, U, c[1], u)
                          THEN {c, <<c[1] - 1, u>>} ELSE {})
                         \cup (IF alphaEmitTransition(b, T, U, c[1], u)
                                 THEN {c, <<c[1], u - 1>>} ELSE {}) :
                       c \in WindowCells(b, T, U, u)} : u \in 1..(U - 1)}

\* ComputeBetaOneSequenceRestricted.
BetaAccessesRestricted(b, T, U) ==
  {<<t, u>> : t \in 0..(T - 1), u \in 0..(U - 1)}
    \cup {<<T - 1, U - 1>>, <<0, 0>>}
    \cup UNION {{<<t, U - 1>>, <<t + 1, U - 1>>} :
                  t \in {t1 \in 0..(T - 2) :
                           \A t0 \in t1..(T - 2) :
                             betaBlankTransition(b, T, U, t0, U - 1)}}
    \cup UNION {{<<T - 1, u>>, <<T - 1, u + 1>>} :
                  u \in {u1 \in 0..(U - 2) :
                           \A u0 \in u1..(U - 2) :
                             betaEmitTransition(b, T, U, T - 1, u0)}}
    \cup UNION {UNION {(IF betaBlankTransition(b, T, U, c[1], u)
                          THEN {c, <<c[1] + 1, u>>} ELSE {})
                         \cup (IF betaEmitTransition(b, T, U, c[1], u)
                                 THEN {c, <<c[1], u + 1>>} ELSE {}) :
                       c \in WindowCells(b, T, U, u)} : u \in 0..(U - 2)}

\* ComputeGradientsOneSequence: beta({0, 0}), the cells of the loop with
\* their beta neighbours, and the zeroing loops when in place.
GradientAccesses(T, U) ==
  {<<0, 0>>}
    \cup {<<t, u>> : t \in 0..(T - 1), u \in 0..(U - 1)}
    \cup {<<t + 1, u>> : t \in 0..(T - 2), u \in 0..(U - 1)}
    \cup {<<t, u + 1>> : t \in 0..(T - 1), u \in 0..(U - 2)}
    \cup (IF inplace
            THEN {<<t, u>> : t \in T..(maxT - 1), u \in 0..(maxU - 1)}
                   \cup {<<t, u>> : t \in 0..(T - 1), u \in U..(maxU - 1)}
            ELSE {})

\* The accesses of task k of the alpha/beta stage.
TaskAccesses(k) ==
  LET b == k \div 2
      T == srcLengths[b]
      U == tgtLengths[b] + 1
  IN IF wpEnds = <<>>
       THEN IF k % 2 = 1 THEN AlphaAccesses(T, U) ELSE BetaAccesses(T, U)
       ELSE IF k % 2 = 1 THEN AlphaAccessesRestricted(b, T, U)
            ELSE BetaAccessesRestricted(b, T, U)

TaskInView(k) == \A a \in TaskAccesses(k) : InView(a)

GradientInView(b) ==
  \A a \in GradientAccesses(srcLengths[b], tgtLengths[b] + 1) : InView(a)

\* Where the accesses of task k outside its view land in the flat buffer,
\* if they land in it at all.
Landing(k, buf) ==
  {Idx2(k \div 2, a[1], a[2]) : a \in {x \in TaskAccesses(k) : ~InView(x)}}
    \cap DOMAIN buf

\* A task whose accesses stay in the view runs as written.
AlphaBetaTaskInView ==
  /\ cPc = "alphasBetas"
  /\ TaskInView(cIdx)
  /\ AlphaBetaTask

\* A task with an access outside the view: the process is killed ...
AlphaBetaTaskFaults ==
  /\ cPc = "alphasBetas"
  /\ ~TaskInView(cIdx)
  /\ cPc' = "fault"
  /\ UNCHANGED <<inputs, logits, denominators, logProbs, alphas, betas,
                 scores, costs, gradients, cIdx>>

\* ... or it goes on: the score it returns and the cells its stray accesses
\* land on hold values nobody chose.
AlphaBetaTaskStrays ==
  /\ cPc = "alphasBetas"
  /\ ~TaskInView(cIdx)
  /\ scores' = [scores EXCEPT ![cIdx] = Undef]
  /\ IF cIdx % 2 = 1
       THEN /\ alphas' = [i \in DOMAIN alphas |->
                            IF i \in Landing(cIdx, alphas) THEN Undef
                            ELSE IF i = Idx2(cIdx \div 2, 0, 0) THEN Zero
                            ELSE alphas[i]]
            /\ betas' = betas
       ELSE /\ betas' = [i \in DOMAIN betas |->
                           IF i \in Landing(cIdx, betas) THEN Undef
                           ELSE betas[i]]
            /\ alphas' = alphas
  /\ IF cIdx + 1 < 2 * B
       THEN cIdx' = cIdx + 1 /\ cPc' = cPc
       ELSE cIdx' = 0 /\ cPc' = NextStage(cPc)
  /\ UNCHANGED <<inputs, logits, denominators, logProbs, costs, gradients>>

InitBounds ==
  /\ Init0Gpu
  /\ fusedLogSmax = TRUE
  /\ nHypos = 1
  /\ InitInputsFrom(0, {"exact"}, {LinZero}, {FALSE, TRUE},
                    {Unrestricted, [first |-> 0, l |-> 0, r |-> 0]},
                    {"formula"})
  /\ blank = 0
  /\ InitBuffers

NextBounds ==
  \/ CpuDenominators /\ UNCHANGED <<gvars, cDone>>
  \/ ComputeLogProbs /\ UNCHANGED <<gvars, cDone>>
  \/ AlphaBetaTaskInView /\ UNCHANGED <<gvars, cDone>>
  \/ AlphaBetaTaskFaults /\ UNCHANGED <<gvars, cDone>>
  \/ AlphaBetaTaskStrays /\ UNCHANGED <<gvars, cDone>>
  \/ ComputeCosts /\ UNCHANGED <<gvars, cDone>>
  \/ ComputeGradients /\ UNCHANGED <<gvars, cDone>>

SpecBounds == InitBounds /\ [][NextBounds]_vars

\* C24: for every sample with 0 <= T_b <= maxT and 0 <= U_b < maxU, T_b = 0
\* included, every access of the alpha, beta (unrestricted and restricted)
\* and gradient routines has 0 <= t < maxT and 0 <= u < maxU.
C24_AccessesStayInView ==
  [][/\ cPc = "alphasBetas" => TaskInView(cIdx)
     /\ cPc = "gradients" => GradientInView(cIdx)]_vars

\* What holds: the accesses stay in the view for every sample with
\* T_b >= 1, and those of the gradient routine for every sample.
AccessesStayInViewFromOne ==
  [][/\ (cPc = "alphasBetas" /\ srcLengths[cIdx \div 2] >= 1) =>
          TaskInView(cIdx)
     /\ cPc = "gradients" => GradientInView(cIdx)]_vars

\* With T_b = 0 both routines of the sample reach t = -1.
EmptySampleLeavesView ==
  \A b \in Samples :
    srcLengths[b] = 0 =>
      /\ <<-1, tgtLengths[b]>> \in TaskAccesses(2 * b)
      /\ <<-1, tgtLengths[b]>> \in TaskAccesses(2 * b + 1)

====
